---- MODULE Spec2Model ----
(***************************************************************************)
(* Model of the lowcode-database server: the tenant pool manager           *)
(* (internal/db), the forward-only migration runner (internal/migrate)     *)
(* and the dynamic schema / row services (internal/service).               *)
(*                                                                         *)
(* The tenant pool manager is modelled at the granularity of its lock      *)
(* operations and backend calls, one process per in-flight request.  The   *)
(* service handlers run against one tenant database; each handler is one   *)
(* action (the backend's transaction engine serialises them).              *)
(***************************************************************************)
EXTENDS Integers, Sequences, FiniteSets, TLC

(***************************************************************************)
(* Bounds of the model.                                                    *)
(***************************************************************************)
NumProcs == 2
MaxCalls == 3
MaxIds == 3
MaxRows == 2

Procs == 1..NumProcs

(***************************************************************************)
(* Tenant pool manager: internal/db/tenant_manager.go                      *)
(***************************************************************************)
TenantModeSingle == "single"
TenantModeMulti == "multi"

\* Tenant ids a request context can carry; "" is the absent tenant id.
TenantIds == {"t1", "t2"}
NoTenant == ""

\* Tenant ids as the x-tenant-id header can also carry them: the interceptor
\* passes the header value on as it is.
CraftedIds == {"t1?sslmode=disable"}
AllTenantIds == TenantIds \cup CraftedIds
NoPool == 0
NoProc == 0
SingleDB == "tables"

\* Number of statements EnsureMetaSchema runs.
MetaStmts == 5

VARIABLES
    mode,        \* TenantManager.mode
    singlePool,  \* TenantManager.singlePool (NoPool in multi mode)
    pools,       \* TenantManager.pools: tenant id -> pool id, NoPool when absent
    mu,          \* TenantManager.mu: [writer, readers]
    opened,      \* every data pool NewPoolFromDSN returned: [db, closed, by]
    databases,   \* the physical databases that exist on the backend
    metaLevel,   \* per database: how many EnsureMetaSchema statements took effect
    ensureRuns,  \* per database: completed EnsureMetaSchema runs
    pc,          \* per request: its position in PoolFor / CreateTenant
    op,          \* per request: the operation in flight
    tenantID,    \* per request: the tenant id of its context / argument
    pool,        \* per request: the local variable pool
    ret,         \* per request: what the last call returned, [pool, err]
    calls        \* calls started so far (bounded by MaxCalls)

poolVars == <<mode, singlePool, pools, mu, opened, databases, metaLevel,
              ensureRuns, pc, op, tenantID, pool, ret, calls>>

\* The migration ledger and the catalogs of one tenant database.
VARIABLES
    ledgerExists, \* the table lc_schema_migrations exists
    ledger,       \* the versions recorded in lc_schema_migrations
    catalogs,     \* how many of the CREATE statements of the core schema took effect
    types,        \* the rows of lc_types: [name, pg_type, kind]
    mig,          \* per Migrate run: [pc, current, si, err, fault, again, before]
    mruns         \* Migrate runs started so far (bounded by MaxCalls)

migVars == <<ledgerExists, ledger, catalogs, types, mig, mruns>>

\* The tenant database the service handlers work on, and the service object.
VARIABLES
    tables,       \* the rows of lc_tables: [id, name, schema_name, table_name]
    columns,      \* the rows of lc_columns
    phys,         \* the physical user tables: [schema, name, cols, rows]
    indexes,      \* the rows of lc_indexes
    physIdx,      \* the physical indexes: [schema, table, name, cols, unique]
    seq,          \* how many catalog ids gen_random_uuid() has handed out
    cfgMaxRow,    \* the maxRow argument NewLowcodeService was given, a Go int
    maxRow,       \* LowcodeService.maxRow
    last          \* the request and the response of the handler that ran last

svcVars == <<tables, columns, phys, indexes, physIdx, seq, cfgMaxRow, maxRow, last>>

\* CREATE DATABASE quotes the tenant id, so any tenant id can name a database.
AllDBs == AllTenantIds \cup {SingleDB}

\* The database a pool of Sprintf(tenantTemplate, tenantID) connects to: the
\* DSN is parsed as a URL, whose path ends where its query begins.
DatabaseOf(t) == IF t = "t1?sslmode=disable" THEN "t1" ELSE t

NoRet == [pool |-> NoPool, err |-> FALSE]

\* NewPoolFromDSN: a new pool object for database db, opened by `by`.
NewPoolFromDSN(db, by) == Append(opened, [db |-> db, closed |-> FALSE, by |-> by])

\* pool.Close()
ClosePool(os, id) == [os EXCEPT ![id].closed = TRUE]

Max(a, b) == IF a >= b THEN a ELSE b

\* NewTenantManager: the state after construction, in either mode.
PoolInitSingle ==
    /\ mode = TenantModeSingle
    /\ opened = <<[db |-> SingleDB, closed |-> FALSE, by |-> "NewTenantManager"]>>
    /\ singlePool = 1
    /\ databases = {SingleDB}
    /\ metaLevel = [d \in AllDBs |-> IF d = SingleDB THEN MetaStmts ELSE 0]
    /\ ensureRuns = [d \in AllDBs |-> IF d = SingleDB THEN 1 ELSE 0]

PoolInitMulti ==
    /\ mode = TenantModeMulti
    /\ opened = <<>>
    /\ singlePool = NoPool
    /\ databases = {}
    /\ metaLevel = [d \in AllDBs |-> 0]
    /\ ensureRuns = [d \in AllDBs |-> 0]

PoolInitCommon ==
    /\ pools = [t \in AllTenantIds |-> NoPool]
    /\ mu = [writer |-> NoProc, readers |-> {}]
    /\ pc = [p \in Procs |-> "idle"]
    /\ op = [p \in Procs |-> "none"]
    /\ tenantID = [p \in Procs |-> NoTenant]
    /\ pool = [p \in Procs |-> NoPool]
    /\ ret = [p \in Procs |-> NoRet]
    /\ calls = 0

\* Return from a call: the result is recorded and the request goes on.
Return(p, result, next) ==
    /\ ret' = [ret EXCEPT ![p] = result]
    /\ pc' = [pc EXCEPT ![p] = next]

Goto(p, next) == pc' = [pc EXCEPT ![p] = next]

(***************************************************************************)
(* PoolFor / poolForTenant                                                 *)
(***************************************************************************)
\* A PoolFor that hands every tenant id, the empty one too, to poolForTenant.
PoolForCallNoTenantTest(p, t) ==
    /\ pc[p] = "idle"
    /\ calls < MaxCalls
    /\ calls' = calls + 1
    /\ op' = [op EXCEPT ![p] = "PoolFor"]
    /\ tenantID' = [tenantID EXCEPT ![p] = t]
    /\ pool' = [pool EXCEPT ![p] = NoPool]
    /\ IF mode = TenantModeSingle
         THEN Return(p, [pool |-> singlePool, err |-> FALSE], "using")
         ELSE Return(p, NoRet, "pf_rlock")
    /\ UNCHANGED <<mode, singlePool, pools, mu, opened, databases, metaLevel, ensureRuns>>
    /\ UNCHANGED <<migVars, svcVars>>

\* PoolFor: the mode test and the tenant id test, before any locking.
PoolForCall(p, t) ==
    /\ pc[p] = "idle"
    /\ calls < MaxCalls
    /\ calls' = calls + 1
    /\ op' = [op EXCEPT ![p] = "PoolFor"]
    /\ tenantID' = [tenantID EXCEPT ![p] = t]
    /\ pool' = [pool EXCEPT ![p] = NoPool]
    /\ IF mode = TenantModeSingle
         THEN Return(p, [pool |-> singlePool, err |-> FALSE], "using")
         ELSE IF t = NoTenant
                THEN Return(p, [pool |-> NoPool, err |-> TRUE], "returned")
                ELSE Return(p, NoRet, "pf_rlock")
    /\ UNCHANGED <<mode, singlePool, pools, mu, opened, databases, metaLevel, ensureRuns>>
    /\ UNCHANGED <<migVars, svcVars>>

\* m.mu.RLock()
PoolForRLock(p) ==
    /\ pc[p] = "pf_rlock"
    /\ mu.writer = NoProc
    /\ mu' = [mu EXCEPT !.readers = @ \cup {p}]
    /\ Goto(p, "pf_rcheck")
    /\ UNCHANGED <<mode, singlePool, pools, opened, databases, metaLevel, ensureRuns,
                   op, tenantID, pool, ret, calls>>
    /\ UNCHANGED <<migVars, svcVars>>

\* The lookup under the read lock, and m.mu.RUnlock() on both branches.
PoolForRCheck(p) ==
    /\ pc[p] = "pf_rcheck"
    /\ mu' = [mu EXCEPT !.readers = @ \ {p}]
    /\ IF pools[tenantID[p]] # NoPool
         THEN Return(p, [pool |-> pools[tenantID[p]], err |-> FALSE], "using")
         ELSE Return(p, NoRet, "pf_wlock")
    /\ UNCHANGED <<mode, singlePool, pools, opened, databases, metaLevel, ensureRuns,
                   op, tenantID, pool, calls>>
    /\ UNCHANGED <<migVars, svcVars>>

\* m.mu.Lock()
PoolForWLock(p) ==
    /\ pc[p] = "pf_wlock"
    /\ mu.writer = NoProc
    /\ mu.readers = {}
    /\ mu' = [mu EXCEPT !.writer = p]
    /\ Goto(p, "pf_wcheck")
    /\ UNCHANGED <<mode, singlePool, pools, opened, databases, metaLevel, ensureRuns,
                   op, tenantID, pool, ret, calls>>
    /\ UNCHANGED <<migVars, svcVars>>

\* A poolForTenant without the second lookup (the double-check left out).
PoolForWCheckNoRecheck(p) ==
    /\ pc[p] = "pf_wcheck"
    /\ Goto(p, "pf_open")
    /\ UNCHANGED <<mode, singlePool, pools, mu, opened, databases, metaLevel,
                   ensureRuns, op, tenantID, pool, ret, calls>>
    /\ UNCHANGED <<migVars, svcVars>>

\* The double-check under the write lock: a race winner's pool is returned.
PoolForWCheck(p) ==
    /\ pc[p] = "pf_wcheck"
    /\ IF pools[tenantID[p]] # NoPool
         THEN /\ pool' = [pool EXCEPT ![p] = pools[tenantID[p]]]
              /\ Goto(p, "pf_unlock")
         ELSE /\ pool' = pool
              /\ Goto(p, "pf_open")
    /\ UNCHANGED <<mode, singlePool, pools, mu, opened, databases, metaLevel,
                   ensureRuns, op, tenantID, ret, calls>>
    /\ UNCHANGED <<migVars, svcVars>>

\* dsn := Sprintf(template, tenantID); NewPoolFromDSN(ctx, dsn): a pool or an error.
PoolForOpen(p) ==
    /\ pc[p] = "pf_open"
    /\ \E ok \in BOOLEAN :
         IF ok
           THEN /\ opened' = NewPoolFromDSN(DatabaseOf(tenantID[p]), "PoolFor")
                /\ pool' = [pool EXCEPT ![p] = Len(opened) + 1]
                /\ Goto(p, "pf_publish")
                /\ ret' = ret
           ELSE /\ opened' = opened
                /\ pool' = [pool EXCEPT ![p] = NoPool]
                /\ Goto(p, "pf_unlock")
                /\ ret' = [ret EXCEPT ![p] = [pool |-> NoPool, err |-> TRUE]]
    /\ UNCHANGED <<mode, singlePool, pools, mu, databases, metaLevel, ensureRuns,
                   op, tenantID, calls>>
    /\ UNCHANGED <<migVars, svcVars>>

\* m.pools[tenantID] = pool
PoolForPublish(p) ==
    /\ pc[p] = "pf_publish"
    /\ pools' = [pools EXCEPT ![tenantID[p]] = pool[p]]
    /\ Goto(p, "pf_unlock")
    /\ UNCHANGED <<mode, singlePool, mu, opened, databases, metaLevel, ensureRuns,
                   op, tenantID, pool, ret, calls>>
    /\ UNCHANGED <<migVars, svcVars>>

\* A poolForTenant whose error return leaves the write lock held.
PoolForUnlockNotOnError(p) ==
    /\ pc[p] = "pf_unlock"
    /\ mu' = IF ret[p].err THEN mu ELSE [mu EXCEPT !.writer = NoProc]
    /\ IF ret[p].err
         THEN Return(p, ret[p], "returned")
         ELSE Return(p, [pool |-> pool[p], err |-> FALSE], "using")
    /\ UNCHANGED <<mode, singlePool, pools, opened, databases, metaLevel, ensureRuns,
                   op, tenantID, pool, calls>>
    /\ UNCHANGED <<migVars, svcVars>>

\* The deferred m.mu.Unlock() and the return of pool or of the error.
PoolForUnlock(p) ==
    /\ pc[p] = "pf_unlock"
    /\ mu' = [mu EXCEPT !.writer = NoProc]
    /\ IF ret[p].err
         THEN Return(p, ret[p], "returned")
         ELSE Return(p, [pool |-> pool[p], err |-> FALSE], "using")
    /\ UNCHANGED <<mode, singlePool, pools, opened, databases, metaLevel, ensureRuns,
                   op, tenantID, pool, calls>>
    /\ UNCHANGED <<migVars, svcVars>>

\* The request that called PoolFor works with the pool, then ends.
Finish(p) ==
    /\ pc[p] \in {"using", "returned"}
    /\ Return(p, NoRet, "idle")
    /\ op' = [op EXCEPT ![p] = "none"]
    /\ tenantID' = [tenantID EXCEPT ![p] = NoTenant]
    /\ pool' = [pool EXCEPT ![p] = NoPool]
    /\ UNCHANGED <<mode, singlePool, pools, mu, opened, databases, metaLevel,
                   ensureRuns, calls>>
    /\ UNCHANGED <<migVars, svcVars>>

(***************************************************************************)
(* CreateTenant                                                            *)
(***************************************************************************)
\* The three argument checks of CreateTenant; adminPool is set exactly in multi mode.
CreateTenantCall(p, t) ==
    /\ pc[p] = "idle"
    /\ calls < MaxCalls
    /\ calls' = calls + 1
    /\ op' = [op EXCEPT ![p] = "CreateTenant"]
    /\ tenantID' = [tenantID EXCEPT ![p] = t]
    /\ pool' = [pool EXCEPT ![p] = NoPool]
    /\ IF mode # TenantModeMulti \/ t = NoTenant
         THEN Return(p, [pool |-> NoPool, err |-> TRUE], "returned")
         ELSE Return(p, NoRet, "ct_createdb")
    /\ UNCHANGED <<mode, singlePool, pools, mu, opened, databases, metaLevel, ensureRuns>>
    /\ UNCHANGED <<migVars, svcVars>>

\* CREATE DATABASE through the admin pool: duplicate_database (42P04) is
\* swallowed, any other error is returned.
CreateTenantCreateDB(p) ==
    /\ pc[p] = "ct_createdb"
    /\ \/ /\ databases' = databases \cup {tenantID[p]}
          /\ Return(p, NoRet, "ct_open")
       \/ /\ tenantID[p] \notin databases
          /\ databases' = databases
          /\ Return(p, [pool |-> NoPool, err |-> TRUE], "returned")
    /\ UNCHANGED <<mode, singlePool, pools, mu, opened, metaLevel, ensureRuns,
                   op, tenantID, pool, calls>>
    /\ UNCHANGED <<migVars, svcVars>>

\* NewPoolFromDSN for the tenant's data pool.
CreateTenantOpen(p) ==
    /\ pc[p] = "ct_open"
    /\ \E ok \in BOOLEAN :
         IF ok
           THEN /\ opened' = NewPoolFromDSN(DatabaseOf(tenantID[p]), "CreateTenant")
                /\ pool' = [pool EXCEPT ![p] = Len(opened) + 1]
                /\ Return(p, NoRet, "ct_ensure")
           ELSE /\ opened' = opened
                /\ pool' = pool
                /\ Return(p, [pool |-> NoPool, err |-> TRUE], "returned")
    /\ UNCHANGED <<mode, singlePool, pools, mu, databases, metaLevel, ensureRuns,
                   op, tenantID, calls>>
    /\ UNCHANGED <<migVars, svcVars>>

\* A CreateTenant that leaves the pool of a failed bootstrap in the map.
CreateTenantEnsureKeepsFailed(p) ==
    /\ pc[p] = "ct_ensure"
    /\ \E done \in 0..(IF opened[pool[p]].db \in databases THEN MetaStmts ELSE 0) :
         /\ metaLevel' = [metaLevel EXCEPT ![opened[pool[p]].db] = Max(@, done)]
         /\ IF done = MetaStmts
              THEN /\ ensureRuns' = [ensureRuns EXCEPT ![opened[pool[p]].db] = @ + 1]
                   /\ opened' = opened
                   /\ pools' = pools
                   /\ Return(p, NoRet, "ct_lock")
              ELSE /\ ensureRuns' = ensureRuns
                   /\ opened' = ClosePool(opened, pool[p])
                   /\ pools' = [pools EXCEPT ![tenantID[p]] = pool[p]]
                   /\ Return(p, [pool |-> NoPool, err |-> TRUE], "returned")
    /\ UNCHANGED <<mode, singlePool, mu, databases, op, tenantID, pool, calls>>
    /\ UNCHANGED <<migVars, svcVars>>

\* EnsureMetaSchema on the database the new pool connects to: its statements
\* run in order, each CREATE ... IF NOT EXISTS; the first failing one ends it
\* (none runs when the database does not exist), and CreateTenant then closes
\* the pool.
CreateTenantEnsure(p) ==
    /\ pc[p] = "ct_ensure"
    /\ \E done \in 0..(IF opened[pool[p]].db \in databases THEN MetaStmts ELSE 0) :
         /\ metaLevel' = [metaLevel EXCEPT ![opened[pool[p]].db] = Max(@, done)]
         /\ IF done = MetaStmts
              THEN /\ ensureRuns' = [ensureRuns EXCEPT ![opened[pool[p]].db] = @ + 1]
                   /\ opened' = opened
                   /\ Return(p, NoRet, "ct_lock")
              ELSE /\ ensureRuns' = ensureRuns
                   /\ opened' = ClosePool(opened, pool[p])
                   /\ Return(p, [pool |-> NoPool, err |-> TRUE], "returned")
    /\ UNCHANGED <<mode, singlePool, pools, mu, databases, op, tenantID, pool, calls>>
    /\ UNCHANGED <<migVars, svcVars>>

\* m.mu.Lock()
CreateTenantLock(p) ==
    /\ pc[p] = "ct_lock"
    /\ mu.writer = NoProc
    /\ mu.readers = {}
    /\ mu' = [mu EXCEPT !.writer = p]
    /\ Goto(p, "ct_swap")
    /\ UNCHANGED <<mode, singlePool, pools, opened, databases, metaLevel, ensureRuns,
                   op, tenantID, pool, ret, calls>>
    /\ UNCHANGED <<migVars, svcVars>>

\* A CreateTenant that replaces the cached pool without closing it.
CreateTenantSwapKeepsOld(p) ==
    /\ pc[p] = "ct_swap"
    /\ opened' = opened
    /\ pools' = [pools EXCEPT ![tenantID[p]] = pool[p]]
    /\ Goto(p, "ct_unlock")
    /\ UNCHANGED <<mode, singlePool, mu, databases, metaLevel, ensureRuns,
                   op, tenantID, pool, ret, calls>>
    /\ UNCHANGED <<migVars, svcVars>>

\* A CreateTenant that drops the cached pool and caches nothing in its place.
CreateTenantSwapEvicts(p) ==
    /\ pc[p] = "ct_swap"
    /\ opened' = IF pools[tenantID[p]] # NoPool
                   THEN ClosePool(opened, pools[tenantID[p]])
                   ELSE opened
    /\ pools' = [pools EXCEPT ![tenantID[p]] =
                     IF pools[tenantID[p]] # NoPool THEN NoPool ELSE pool[p]]
    /\ Goto(p, "ct_unlock")
    /\ UNCHANGED <<mode, singlePool, mu, databases, metaLevel, ensureRuns,
                   op, tenantID, pool, ret, calls>>
    /\ UNCHANGED <<migVars, svcVars>>

\* The cached pool, if any, is closed and the new pool takes its place.
CreateTenantSwap(p) ==
    /\ pc[p] = "ct_swap"
    /\ opened' = IF pools[tenantID[p]] # NoPool
                   THEN ClosePool(opened, pools[tenantID[p]])
                   ELSE opened
    /\ pools' = [pools EXCEPT ![tenantID[p]] = pool[p]]
    /\ Goto(p, "ct_unlock")
    /\ UNCHANGED <<mode, singlePool, mu, databases, metaLevel, ensureRuns,
                   op, tenantID, pool, ret, calls>>
    /\ UNCHANGED <<migVars, svcVars>>

\* m.mu.Unlock(); return nil
CreateTenantUnlock(p) ==
    /\ pc[p] = "ct_unlock"
    /\ mu' = [mu EXCEPT !.writer = NoProc]
    /\ Return(p, NoRet, "returned")
    /\ UNCHANGED <<mode, singlePool, pools, opened, databases, metaLevel, ensureRuns,
                   op, tenantID, pool, calls>>
    /\ UNCHANGED <<migVars, svcVars>>

(***************************************************************************)
(* Migration runner: internal/migrate/migrate.go                           *)
(***************************************************************************)
\* The step list with its two steps the other way round.
stepsDescending == <<[Version |-> 2, Name |-> "seed virtual column types"],
                     [Version |-> 1, Name |-> "init core lc_* schema and seed types"]>>

\* var steps
steps == <<[Version |-> 1, Name |-> "init core lc_* schema and seed types"],
           [Version |-> 2, Name |-> "seed virtual column types"]>>

Versions == {steps[i].Version : i \in 1..Len(steps)}

TypeRow(n, pg, k) == [name |-> n, pg_type |-> pg, kind |-> k]

\* The rows stepInitCore seeds.
CoreTypes == {TypeRow("text", "text", ""), TypeRow("number", "numeric", ""),
              TypeRow("bool", "boolean", ""), TypeRow("timestamp", "timestamptz", ""),
              TypeRow("json", "jsonb", "")}

\* The rows stepSeedVirtualTypes seeds.
VirtualTypes == {TypeRow("formula", "jsonb", "formula"),
                 TypeRow("relationship", "jsonb", "relationship")}

\* INSERT INTO lc_types ... ON CONFLICT (name) DO NOTHING
SeedTypes(ts, rows) == ts \cup {r \in rows : \A t \in ts : t.name # r.name}

\* Number of statements of each step's Up function.
UpStmts(v) == IF v = 1 THEN MetaStmts + 1 ELSE 1

\* The database after the first `done` statements of step v's Up took effect.
UpCatalogs(v, done) == IF v = 1 THEN Max(catalogs, IF done > MetaStmts THEN MetaStmts ELSE done)
                       ELSE catalogs

UpTypes(v, done) ==
    IF v = 1 THEN (IF done = UpStmts(1) THEN SeedTypes(types, CoreTypes) ELSE types)
    ELSE (IF done = UpStmts(v) THEN SeedTypes(types, VirtualTypes) ELSE types)

DBState == <<ledgerExists, ledger, catalogs, types>>

MigIdle == [pc |-> "idle", current |-> 0, si |-> 1, err |-> FALSE, fault |-> FALSE,
            again |-> FALSE, before |-> <<>>]

MigrateInit ==
    /\ ledgerExists = FALSE
    /\ ledger = {}
    /\ catalogs \in {0, MetaStmts}
    /\ types = {}
    /\ mig = [p \in Procs |-> MigIdle]
    /\ mruns = 0

MigFail(p, injected) ==
    mig' = [mig EXCEPT ![p].pc = "done", ![p].err = TRUE, ![p].fault = @ \/ injected]

\* A caller starts Migrate against the database.
MigrateCall(p) ==
    /\ mig[p].pc = "idle"
    /\ mruns < MaxCalls
    /\ mruns' = mruns + 1
    /\ mig' = [mig EXCEPT ![p] = [MigIdle EXCEPT !.pc = "m_ledger",
                                                !.again = (Versions \subseteq ledger),
                                                !.before = DBState]]
    /\ UNCHANGED <<ledgerExists, ledger, catalogs, types>>
    /\ UNCHANGED <<poolVars, svcVars>>

\* CREATE TABLE IF NOT EXISTS lc_schema_migrations
MigrateLedger(p) ==
    /\ mig[p].pc = "m_ledger"
    /\ \/ /\ ledgerExists' = TRUE
          /\ mig' = [mig EXCEPT ![p].pc = "m_read"]
       \/ /\ ledgerExists' = ledgerExists
          /\ MigFail(p, TRUE)
    /\ UNCHANGED <<ledger, catalogs, types, mruns>>
    /\ UNCHANGED <<poolVars, svcVars>>

\* SELECT COALESCE(MAX(version), 0) FROM lc_schema_migrations
MigrateRead(p) ==
    /\ mig[p].pc = "m_read"
    /\ \/ LET cur == IF ledger = {} THEN 0
                     ELSE CHOOSE v \in ledger : \A w \in ledger : w <= v
          IN mig' = [mig EXCEPT ![p].pc = "m_loop", ![p].current = cur, ![p].si = 1]
       \/ MigFail(p, TRUE)
    /\ UNCHANGED <<ledgerExists, ledger, catalogs, types, mruns>>
    /\ UNCHANGED <<poolVars, svcVars>>

\* A version test that runs the step at the current version again.
PendingFromCurrent(v, current) == v >= current

\* if s.Version <= current { continue }
Pending(v, current) == v > current

\* for _, s := range steps: the end of the loop, and a step at or below current.
MigrateSkip(p) ==
    /\ mig[p].pc = "m_loop"
    /\ IF mig[p].si > Len(steps)
         THEN mig' = [mig EXCEPT ![p].pc = "done"]
         ELSE /\ ~Pending(steps[mig[p].si].Version, mig[p].current)
              /\ mig' = [mig EXCEPT ![p].si = @ + 1]
    /\ UNCHANGED <<ledgerExists, ledger, catalogs, types, mruns>>
    /\ UNCHANGED <<poolVars, svcVars>>

\* s.Up(ctx, pool): its statements in order, outside any transaction; the
\* first failing statement ends the run.
MigrateUp(p) ==
    /\ mig[p].pc = "m_loop"
    /\ mig[p].si <= Len(steps)
    /\ Pending(steps[mig[p].si].Version, mig[p].current)
    /\ LET v == steps[mig[p].si].Version IN
       \E done \in 0..UpStmts(v) :
         /\ catalogs' = UpCatalogs(v, done)
         /\ types' = UpTypes(v, done)
         /\ IF done = UpStmts(v)
              THEN mig' = [mig EXCEPT ![p].pc = "m_record"]
              ELSE MigFail(p, TRUE)
    /\ UNCHANGED <<ledgerExists, ledger, mruns>>
    /\ UNCHANGED <<poolVars, svcVars>>

\* INSERT INTO lc_schema_migrations (version, name): version is the primary key.
MigrateRecord(p) ==
    /\ mig[p].pc = "m_record"
    /\ LET v == steps[mig[p].si].Version IN
       IF v \in ledger
         THEN /\ ledger' = ledger
              /\ MigFail(p, FALSE)
         ELSE \/ /\ ledger' = ledger \cup {v}
                 /\ mig' = [mig EXCEPT ![p].pc = "m_loop", ![p].si = @ + 1]
              \/ /\ ledger' = ledger
                 /\ MigFail(p, TRUE)
    /\ UNCHANGED <<ledgerExists, catalogs, types, mruns>>
    /\ UNCHANGED <<poolVars, svcVars>>

\* Migrate has returned; the caller goes on.
MigrateReturn(p) ==
    /\ mig[p].pc = "done"
    /\ mig' = [mig EXCEPT ![p] = MigIdle]
    /\ UNCHANGED <<ledgerExists, ledger, catalogs, types, mruns>>
    /\ UNCHANGED <<poolVars, svcVars>>

MigrateNext ==
    \E p \in Procs :
        \/ MigrateCall(p)
        \/ MigrateLedger(p)
        \/ MigrateRead(p)
        \/ MigrateSkip(p)
        \/ MigrateUp(p)
        \/ MigrateRecord(p)
        \/ MigrateReturn(p)

(***************************************************************************)
(* Values: unnamed/part_000 (valueToAny, anyToValue) and the driver's      *)
(* conversion between Go values and backend values.                        *)
(***************************************************************************)
\* Strings that are not the text of a UUID; every generated id is one.
NotUUID == {"", "x", "a", "b"}
IsUUID(s) == s \notin NotUUID

Val(k, v) == [kind |-> k, v |-> v]
NullStored == [t |-> "null", v |-> ""]

\* valueToAny: the Go value written for a protobuf Value.
valueToAny(val) ==
    CASE val.kind = "string" -> [go |-> "string", v |-> val.v]
      [] val.kind = "number" -> [go |-> "float64", v |-> val.v]
      [] val.kind = "bool" -> [go |-> "bool", v |-> val.v]
      [] val.kind = "timestamp" -> [go |-> "time.Time", v |-> val.v]
      [] val.kind = "bytes" -> [go |-> "[]byte", v |-> val.v]
      [] val.kind = "json" -> [go |-> "map", v |-> val.v]
      [] OTHER -> [go |-> "nil", v |-> ""]

\* The backend type that takes each Go value as a statement argument; nil is
\* NULL for every type, any other pairing is an encoding error.
PgEncode(g, pgType) ==
    IF g.go = "nil" THEN [ok |-> TRUE, s |-> NullStored]
    ELSE IF \/ (pgType = "text" /\ g.go \in {"string", "[]byte"})
            \/ (pgType = "numeric" /\ g.go = "float64")
            \/ (pgType = "boolean" /\ g.go = "bool")
            \/ (pgType = "timestamptz" /\ g.go = "time.Time")
            \/ (pgType = "jsonb" /\ g.go = "map")
           THEN [ok |-> TRUE, s |-> [t |-> pgType, v |-> g.v]]
           ELSE [ok |-> FALSE, s |-> NullStored]

\* rows.Scan into *any: the Go value the driver hands back for a stored value.
PgDecode(s) ==
    CASE s.t = "null" -> [go |-> "nil", v |-> ""]
      [] s.t = "text" -> [go |-> "string", v |-> s.v]
      [] s.t = "boolean" -> [go |-> "bool", v |-> s.v]
      [] s.t = "numeric" -> [go |-> "pgtype.Numeric", v |-> s.v]
      [] s.t = "timestamptz" -> [go |-> "time.Time", v |-> s.v]
      [] OTHER -> [go |-> "map", v |-> s.v]

\* fmt.Sprint(v)
Sprint(g) == "Sprint(" \o g.v \o ")"

\* anyToValue: string, []byte, bool and the Go numbers keep their kind,
\* everything else is rendered as a string.
anyToValue(g) ==
    CASE g.go = "string" -> Val("string", g.v)
      [] g.go = "[]byte" -> Val("bytes", g.v)
      [] g.go = "bool" -> Val("bool", g.v)
      [] g.go \in {"int32", "int64", "float32", "float64"} -> Val("number", g.v)
      [] OTHER -> Val("string", Sprint(g))

(***************************************************************************)
(* Catalog and physical tables                                             *)
(***************************************************************************)
\* COALESCE(ty.config->>'kind', '') of the type with the given id.
KindOf(typeId) == (CHOOSE t \in types : t.name = typeId).kind
PgTypeOf(typeId) == (CHOOSE t \in types : t.name = typeId).pg_type
IsVirtual(typeId) == KindOf(typeId) \in {"formula", "relationship"}

PhysExists(ph, schema, name) == \E t \in ph : t.schema = schema /\ t.name = name
PhysTable(ph, schema, name) == CHOOSE t \in ph : t.schema = schema /\ t.name = name
PhysPut(ph, t) == {u \in ph : ~(u.schema = t.schema /\ u.name = t.name)} \cup {t}

\* The row ids gen_random_uuid() can still produce against the bound MaxRows.
RowId(n) == "R" \o ToString(n)
RowNo(id) == CHOOSE n \in 1..MaxRows : RowId(n) = id
UsedRowIds(ph) == UNION {{r.id : r \in t.rows} : t \in ph}
FreshRowId(ph) == RowId(CHOOSE n \in 1..MaxRows :
                          /\ RowId(n) \notin UsedRowIds(ph)
                          /\ \A m \in 1..(n - 1) : RowId(m) \in UsedRowIds(ph))

\* loadColumns: the table's non-virtual columns with the table's physical
\* location; the location is read from the joined rows, so it is empty when
\* the table has no such column.
loadColumns(tableID) ==
    IF ~IsUUID(tableID)
      THEN [err |-> TRUE, cols |-> {}, schemaName |-> "", tableName |-> ""]
      ELSE LET cols == {c \in columns : c.table_id = tableID /\ ~IsVirtual(c.type_id)}
               t == CHOOSE t \in tables : t.id = tableID
           IN [err |-> FALSE, cols |-> cols,
               schemaName |-> IF cols = {} THEN "" ELSE t.schema_name,
               tableName |-> IF cols = {} THEN "" ELSE t.table_name]

\* The statement arguments built from the cells: for _, c := range cols, the
\* cell keyed by c.Id, if any, goes to c.PgColumn.
MatchedCols(cols, cells) == {c \in cols : c.id \in DOMAIN cells}
ArgsFor(cols, cells) ==
    [n \in {c.pg_column : c \in MatchedCols(cols, cells)} |->
        valueToAny(cells[(CHOOSE c \in cols : c.pg_column = n).id])]

\* The stored values of the arguments, column by column.
EncodedOk(t, args) ==
    \A n \in DOMAIN args :
        /\ \E c \in t.cols : c.name = n
        /\ PgEncode(args[n], (CHOOSE c \in t.cols : c.name = n).pg_type).ok
Encoded(t, args) ==
    [n \in DOMAIN args |-> PgEncode(args[n], (CHOOSE c \in t.cols : c.name = n).pg_type).s]

\* INSERT INTO schema.table (cols) VALUES (args) RETURNING id
SqlInsert(ph, schema, name, args) ==
    IF ~PhysExists(ph, schema, name) THEN [ok |-> FALSE, id |-> "", ph |-> ph]
    ELSE LET t == PhysTable(ph, schema, name) IN
         IF ~EncodedOk(t, args) THEN [ok |-> FALSE, id |-> "", ph |-> ph]
         ELSE LET vals == [n \in {c.name : c \in t.cols} |->
                              IF n \in DOMAIN args THEN Encoded(t, args)[n] ELSE NullStored]
                  id == FreshRowId(ph)
              IN IF \E c \in t.cols : c.notnull /\ vals[c.name] = NullStored
                   THEN [ok |-> FALSE, id |-> "", ph |-> ph]
                   ELSE [ok |-> TRUE, id |-> id,
                         ph |-> PhysPut(ph, [t EXCEPT !.rows = @ \cup {[id |-> id, vals |-> vals]}])]

\* UPDATE schema.table SET col = arg, ... WHERE id = rowID
SqlUpdate(ph, schema, name, args, rowID) ==
    IF ~PhysExists(ph, schema, name) \/ ~IsUUID(rowID) THEN [ok |-> FALSE, ph |-> ph]
    ELSE LET t == PhysTable(ph, schema, name) IN
         IF ~EncodedOk(t, args) THEN [ok |-> FALSE, ph |-> ph]
         ELSE LET set(r) == [n \in DOMAIN r.vals |->
                                IF n \in DOMAIN args THEN Encoded(t, args)[n] ELSE r.vals[n]]
                  hit == {r \in t.rows : r.id = rowID}
              IN IF \E r \in hit : \E c \in t.cols : c.notnull /\ set(r)[c.name] = NullStored
                   THEN [ok |-> FALSE, ph |-> ph]
                   ELSE [ok |-> TRUE,
                         ph |-> PhysPut(ph, [t EXCEPT !.rows =
                                   (@ \ hit) \cup {[id |-> r.id, vals |-> set(r)] : r \in hit}])]

(***************************************************************************)
(* Table and column handlers: table_service.go, column_service.go          *)
(***************************************************************************)
DefaultSchema == "public"

\* defer tx.Rollback(ctx) with tx.Commit(ctx) on the success path: the state
\* the transaction leaves behind.
TxEndKeepsPartial(committed, before, after) == after

TxEnd(committed, before, after) == IF committed THEN after ELSE before

\* A handler without the deferred Rollback: a return before Commit leaves the
\* transaction open.
TxOutcomeNoDefer(began, committed) ==
    IF ~began THEN "none" ELSE IF committed THEN "committed" ELSE "open"

\* What has become of the handler's transaction when the handler returns:
\* tx.Commit on the success path, and the deferred tx.Rollback, registered
\* right after BeginTx, ends it on every other return.
TxOutcome(began, committed) ==
    IF ~began THEN "none" ELSE IF committed THEN "committed" ELSE "rolled back"

\* CreateTable: the physical table is named after the logical name; the
\* catalog row gets a fresh id.
CreateTable(name, schemaIn) ==
    LET schemaName == IF schemaIn = "" THEN DefaultSchema ELSE schemaIn
        physTable == "lc_t_" \o name
        created == ~PhysExists(phys, schemaName, physTable)
        inserted == created /\ ~\E t \in tables :
                                   t.schema_name = schemaName /\ t.table_name = physTable
        row == [id |-> "T" \o ToString(seq + 1), name |-> name,
                schema_name |-> schemaName, table_name |-> physTable]
    IN [ok |-> inserted,
        tables |-> TxEnd(inserted, tables, tables \cup {row}),
        phys |-> TxEnd(inserted, phys,
                       phys \cup {[schema |-> schemaName, name |-> physTable,
                                   cols |-> {}, rows |-> {}]}),
        table |-> [row EXCEPT !.id = name]]

\* DeleteTable with a missing catalog row reported as an error.
DeleteTableNotFoundIsError(id) ==
    LET gone == {t \in tables : t.name = id}
        drop(hit) == [ok |-> TRUE, found |-> TRUE,
                      tables |-> tables \ gone,
                      columns |-> {c \in columns : c.table_id \notin {t.id : t \in gone}},
                      phys |-> {t \in phys : ~(t.schema = hit.schema_name
                                                /\ t.name = hit.table_name)}]
    IN IF gone = {}
         THEN {[ok |-> FALSE, found |-> FALSE, tables |-> tables,
                columns |-> columns, phys |-> phys]}
         ELSE {drop(hit) : hit \in gone}

\* DeleteTable with the catalog rows of the table's columns left behind.
DeleteTableNoCascade(id) ==
    LET gone == {t \in tables : t.name = id}
        drop(hit) == [ok |-> TRUE, found |-> TRUE,
                      tables |-> tables \ gone,
                      columns |-> columns,
                      phys |-> {t \in phys : ~(t.schema = hit.schema_name
                                                /\ t.name = hit.table_name)}]
    IN IF gone = {}
         THEN {[ok |-> TRUE, found |-> FALSE, tables |-> tables,
                columns |-> columns, phys |-> phys]}
         ELSE {drop(hit) : hit \in gone}

\* DeleteTable: the possible outcomes.  The catalog row is looked up by
\* logical name; with no row the call succeeds at once.  Otherwise QueryRow
\* takes one of the matching rows, its physical table is dropped and every
\* catalog row of that name is deleted, the columns cascading.
DeleteTable(id) ==
    LET gone == {t \in tables : t.name = id}
        drop(hit) == [ok |-> TRUE, found |-> TRUE,
                      tables |-> tables \ gone,
                      columns |-> {c \in columns : c.table_id \notin {t.id : t \in gone}},
                      phys |-> {t \in phys : ~(t.schema = hit.schema_name
                                                /\ t.name = hit.table_name)}]
    IN IF gone = {}
         THEN {[ok |-> TRUE, found |-> FALSE, tables |-> tables,
                columns |-> columns, phys |-> phys]}
         ELSE {drop(hit) : hit \in gone}

\* The eight hex digits a column's physical name is built from.
Hex8 == {"00000001", "00000002"}

\* pgColumn := "c_" + uuid[:8], or "v_" + uuid[:8] for a virtual column.
PgColumnName(virtual, hex) == IF virtual THEN "v_" \o hex ELSE "c_" \o hex

EmptyConfig == [target_table_id |-> "", link_column_id |-> "", target_column_id |-> ""]

\* An AddColumn that alters the physical table for virtual types too.
AddsPhysicalColumnAlways(kind) == TRUE

\* isVirtual := kind == "formula" || kind == "relationship"; ALTER TABLE runs
\* in the else branch only.
AddsPhysicalColumn(kind) == kind \notin {"formula", "relationship"}

\* AddColumn: one transaction around the two lookups, the ALTER TABLE of a
\* non-virtual column and the INSERT of the catalog row.
AddColumn(req, hex) ==
    LET found == /\ IsUUID(req.table_id)
                 /\ \E t \in tables : t.id = req.table_id
                 /\ \E ty \in types : ty.name = req.type_id
        t == CHOOSE t \in tables : t.id = req.table_id
        physical == AddsPhysicalColumn(KindOf(req.type_id))
        pgColumn == PgColumnName(IsVirtual(req.type_id), hex)
        pt == PhysTable(phys, t.schema_name, t.table_name)
        altered == \/ ~physical
                   \/ /\ PhysExists(phys, t.schema_name, t.table_name)
                      /\ ~\E c \in pt.cols : c.name = pgColumn
                      /\ (req.is_nullable \/ pt.rows = {})
        inserted == ~\E c \in columns :
                        /\ c.table_id = req.table_id
                        /\ (c.name = req.name \/ c.pg_column = pgColumn)
        ok == found /\ altered /\ inserted
        row == [id |-> "C" \o ToString(seq + 1), table_id |-> req.table_id,
                name |-> req.name, type_id |-> req.type_id, pg_column |-> pgColumn,
                is_nullable |-> req.is_nullable, position |-> req.position,
                config |-> req.config]
        newcol == [name |-> pgColumn, pg_type |-> PgTypeOf(req.type_id),
                   notnull |-> ~req.is_nullable]
    IN [ok |-> ok,
        column |-> row,
        virtual |-> found /\ IsVirtual(req.type_id),
        columns |-> TxEnd(ok, columns, columns \cup {row}),
        phys |-> IF found /\ altered /\ physical
                   THEN TxEnd(ok, phys,
                              PhysPut(phys, [pt EXCEPT
                                  !.cols = @ \cup {newcol},
                                  !.rows = {[r EXCEPT !.vals =
                                               [n \in DOMAIN r.vals \cup {pgColumn} |->
                                                  IF n = pgColumn THEN NullStored
                                                  ELSE r.vals[n]]] : r \in @}]))
                   ELSE phys]

\* An lc_columns without its UNIQUE (table_id, name).
ColumnsUniqueByPgColumnOnly(cs) ==
    \A c \in cs, d \in cs :
        (c.table_id = d.table_id /\ c.pg_column = d.pg_column /\ c.id # d.id) => c = d

\* lc_columns: UNIQUE (table_id, name) and UNIQUE (table_id, pg_column), as
\* the backend checks them when a row is written.
ColumnsUnique(cs) ==
    \A c \in cs, d \in cs :
        (c.table_id = d.table_id /\ (c.name = d.name \/ c.pg_column = d.pg_column)) => c = d

\* An UpdateColumn that also gives the column a physical name after its new
\* logical name.
UpdateColumnRenamesPhysical(req) ==
    LET found == IsUUID(req.id) /\ \E c \in columns : c.id = req.id
        old == CHOOSE c \in columns : c.id = req.id
        new == [old EXCEPT
                   !.name = IF req.name = "" THEN @ ELSE req.name,
                   !.pg_column = IF req.name = "" THEN @ ELSE "c_" \o req.name,
                   !.is_nullable = IF req.is_nullable THEN TRUE ELSE @,
                   !.position = IF req.position = 0 THEN @ ELSE req.position,
                   !.config = req.config]
        after == (columns \ {old}) \cup {new}
        ok == found /\ ColumnsUnique(after)
    IN [ok |-> ok,
        column |-> IF ok THEN new ELSE [id |-> ""],
        columns |-> IF ok THEN after ELSE columns]

\* UpdateColumn: one UPDATE ... WHERE id = $1 RETURNING; an empty name and a
\* zero position keep the stored value, is_nullable is sent only when true,
\* and the config sent is always a map.  No row updated is an error of Scan.
UpdateColumn(req) ==
    LET found == IsUUID(req.id) /\ \E c \in columns : c.id = req.id
        old == CHOOSE c \in columns : c.id = req.id
        new == [old EXCEPT
                   !.name = IF req.name = "" THEN @ ELSE req.name,
                   !.is_nullable = IF req.is_nullable THEN TRUE ELSE @,
                   !.position = IF req.position = 0 THEN @ ELSE req.position,
                   !.config = req.config]
        after == (columns \ {old}) \cup {new}
        ok == found /\ ColumnsUnique(after)
    IN [ok |-> ok,
        column |-> IF ok THEN new ELSE [id |-> ""],
        columns |-> IF ok THEN after ELSE columns]

\* A DeleteColumn that drops the physical column and keeps the catalog row.
DeleteColumnKeepsCatalogRow(id) ==
    LET valid == IsUUID(id)
        found == valid /\ \E c \in columns : c.id = id
        c == CHOOSE c \in columns : c.id = id
        t == CHOOSE t \in tables : t.id = c.table_id
        physical == ~IsVirtual(c.type_id)
        pt == PhysTable(phys, t.schema_name, t.table_name)
        dropped == ~physical \/ PhysExists(phys, t.schema_name, t.table_name)
        ok == valid /\ (found => dropped)
    IN [ok |-> ok,
        found |-> found,
        columns |-> columns,
        phys |-> IF found /\ physical /\ dropped
                   THEN TxEnd(ok, phys,
                              PhysPut(phys, [pt EXCEPT
                                  !.cols = {k \in @ : k.name # c.pg_column},
                                  !.rows = {[r EXCEPT !.vals =
                                               [n \in DOMAIN r.vals \ {c.pg_column} |->
                                                  r.vals[n]]] : r \in @}]))
                   ELSE phys]

\* DeleteColumn: one transaction; no catalog row is success at once, a
\* non-virtual column is dropped from the physical table (IF EXISTS), then
\* the catalog row is deleted.
DeleteColumn(id) ==
    LET valid == IsUUID(id)
        found == valid /\ \E c \in columns : c.id = id
        c == CHOOSE c \in columns : c.id = id
        t == CHOOSE t \in tables : t.id = c.table_id
        physical == ~IsVirtual(c.type_id)
        pt == PhysTable(phys, t.schema_name, t.table_name)
        dropped == ~physical \/ PhysExists(phys, t.schema_name, t.table_name)
        ok == valid /\ (found => dropped)
    IN [ok |-> ok,
        found |-> found,
        columns |-> IF found THEN TxEnd(ok, columns, columns \ {c}) ELSE columns,
        phys |-> IF found /\ physical /\ dropped
                   THEN TxEnd(ok, phys,
                              PhysPut(phys, [pt EXCEPT
                                  !.cols = {k \in @ : k.name # c.pg_column},
                                  !.rows = {[r EXCEPT !.vals =
                                               [n \in DOMAIN r.vals \ {c.pg_column} |->
                                                  r.vals[n]]] : r \in @}]))
                   ELSE phys]

(***************************************************************************)
(* Index handlers: index_service.go                                        *)
(***************************************************************************)
\* The physical indexes the backend keeps over the physical tables ph: an
\* index goes with its table, and with any column of its table it is on.
LiveIndexes(ph) ==
    {x \in physIdx :
        /\ PhysExists(ph, x.schema, x.table)
        /\ x.cols \subseteq {k.name : k \in PhysTable(ph, x.schema, x.table).cols}}

\* CreateIndex: the requested column ids are resolved against loadColumns
\* before the transaction; CREATE [UNIQUE] INDEX and the INSERT of the
\* catalog row run inside it.  A column id that is not the text of a uuid
\* fails the INSERT (column_ids is UUID[]).
CreateIndex(req) ==
    LET lc == loadColumns(req.table_id)
        pgColumns == {c.pg_column : c \in {d \in lc.cols : d.id \in req.column_ids}}
        resolved == req.table_id # "" /\ ~lc.err /\ pgColumns # {}
        pgIndex == "lc_idx_" \o ToString(seq + 1)
        pt == PhysTable(phys, lc.schemaName, lc.tableName)
        created == /\ PhysExists(phys, lc.schemaName, lc.tableName)
                   /\ pgColumns \subseteq {k.name : k \in pt.cols}
                   /\ req.is_unique =>
                          \A r \in pt.rows, q \in pt.rows :
                              (r # q /\ \A n \in pgColumns : r.vals[n] = q.vals[n]) =>
                                  \E n \in pgColumns : r.vals[n] = NullStored
        inserted == /\ \A id \in req.column_ids : IsUUID(id)
                    /\ ~\E i \in indexes : i.table_id = req.table_id /\ i.name = req.name
        ok == resolved /\ created /\ inserted
        row == [id |-> "I" \o ToString(seq + 1), table_id |-> req.table_id,
                name |-> req.name, pg_index |-> pgIndex, column_ids |-> req.column_ids,
                is_unique |-> req.is_unique]
    IN [ok |-> ok,
        resolved |-> resolved,
        index |-> row,
        indexes |-> IF resolved THEN TxEnd(ok, indexes, indexes \cup {row}) ELSE indexes,
        physIdx |-> IF resolved /\ created
                      THEN TxEnd(ok, physIdx,
                                 physIdx \cup {[schema |-> lc.schemaName, table |-> lc.tableName,
                                                name |-> pgIndex, cols |-> pgColumns,
                                                unique |-> req.is_unique]})
                      ELSE physIdx]

\* A DeleteIndex that deletes the catalog row and leaves the physical index.
DeleteIndexKeepsPhysical(id) ==
    LET valid == IsUUID(id)
        found == valid /\ \E i \in indexes : i.id = id
        i == CHOOSE i \in indexes : i.id = id
    IN [ok |-> valid,
        found |-> found,
        indexes |-> IF found THEN TxEnd(valid, indexes, indexes \ {i}) ELSE indexes,
        physIdx |-> physIdx]

\* DeleteIndex: one transaction; no catalog row is success at once, else DROP
\* INDEX IF EXISTS schema.pg_index and the DELETE of the catalog row.
DeleteIndex(id) ==
    LET valid == IsUUID(id)
        found == valid /\ \E i \in indexes : i.id = id
        i == CHOOSE i \in indexes : i.id = id
        t == CHOOSE t \in tables : t.id = i.table_id
    IN [ok |-> valid,
        found |-> found,
        indexes |-> IF found THEN TxEnd(valid, indexes, indexes \ {i}) ELSE indexes,
        physIdx |-> IF found
                      THEN TxEnd(valid, physIdx,
                                 {x \in physIdx : ~(x.schema = t.schema_name
                                                     /\ x.name = i.pg_index)})
                      ELSE physIdx]

(***************************************************************************)
(* Row handlers: row_service.go, bulk_service.go                           *)
(***************************************************************************)
\* CreateRow without the test for matched cells.
CreateRowNoMatchTest(tableID, cells) ==
    LET lc == loadColumns(tableID)
        args == ArgsFor(lc.cols, cells)
        ins == SqlInsert(phys, lc.schemaName, lc.tableName, args)
        ok == /\ tableID # "" /\ ~lc.err
              /\ ins.ok
    IN [ok |-> ok, id |-> IF ok THEN ins.id ELSE "", cells |-> cells,
        phys |-> IF ok THEN ins.ph ELSE phys]

\* CreateRow: returns the generated id and the cells as given.
CreateRow(tableID, cells) ==
    LET lc == loadColumns(tableID)
        args == ArgsFor(lc.cols, cells)
        ins == SqlInsert(phys, lc.schemaName, lc.tableName, args)
        ok == /\ tableID # "" /\ ~lc.err
              /\ DOMAIN cells # {} /\ DOMAIN args # {}
              /\ ins.ok
    IN [ok |-> ok, id |-> IF ok THEN ins.id ELSE "", cells |-> cells,
        phys |-> IF ok THEN ins.ph ELSE phys]

\* UpdateRow: one UPDATE ... WHERE id = rowID of the matched cells; a row id
\* no row has updates nothing and is a success.
UpdateRow(tableID, rowID, cells) ==
    LET lc == loadColumns(tableID)
        args == ArgsFor(lc.cols, cells)
        upd == SqlUpdate(phys, lc.schemaName, lc.tableName, args, rowID)
        ok == /\ tableID # "" /\ rowID # ""
              /\ ~lc.err
              /\ DOMAIN cells # {} /\ DOMAIN args # {}
              /\ upd.ok
    IN [ok |-> ok, id |-> IF ok THEN rowID ELSE "", cells |-> cells,
        phys |-> IF ok THEN upd.ph ELSE phys]

\* DELETE FROM schema.table WHERE id = rowID
SqlDelete(ph, schema, name, rowID) ==
    IF ~PhysExists(ph, schema, name) \/ ~IsUUID(rowID) THEN [ok |-> FALSE, ph |-> ph]
    ELSE LET t == PhysTable(ph, schema, name)
         IN [ok |-> TRUE, ph |-> PhysPut(ph, [t EXCEPT !.rows = {r \in @ : r.id # rowID}])]

\* DeleteRow: the table is found through loadColumns, whose schema and table
\* name come from the rows of its column query.
DeleteRow(tableID, rowID) ==
    LET lc == loadColumns(tableID)
        del == SqlDelete(phys, lc.schemaName, lc.tableName, rowID)
        ok == /\ tableID # "" /\ rowID # ""
              /\ ~lc.err
              /\ del.ok
    IN [ok |-> ok, phys |-> IF ok THEN del.ph ELSE phys]

\* The items of a bulk upsert, in order, inside the transaction: st is
\* [ok, ph, rows, applied] after the items before i.
RECURSIVE BulkApply(_, _, _, _)
BulkApply(st, lc, items, i) ==
    IF i > Len(items) \/ ~st.ok THEN st
    ELSE LET item == items[i]
             args == ArgsFor(lc.cols, item.cells)
             ins == SqlInsert(st.ph, lc.schemaName, lc.tableName, args)
             upd == SqlUpdate(st.ph, lc.schemaName, lc.tableName, args, item.row_id)
             done(ph, id) == [ok |-> TRUE, ph |-> ph,
                              rows |-> Append(st.rows, [id |-> id, cells |-> item.cells]),
                              applied |-> st.applied + 1]
         IN IF DOMAIN args = {} THEN BulkApply(st, lc, items, i + 1)
            ELSE IF item.row_id = ""
                   THEN BulkApply(IF ins.ok THEN done(ins.ph, ins.id)
                                  ELSE [st EXCEPT !.ok = FALSE], lc, items, i + 1)
                   ELSE BulkApply(IF upd.ok THEN done(upd.ph, item.row_id)
                                  ELSE [st EXCEPT !.ok = FALSE], lc, items, i + 1)

\* BulkUpsertRows with an item that matches no column failing the batch.
BulkUpsertRowsSkipFails(tableID, items) ==
    LET lc == loadColumns(tableID)
        st == BulkApply([ok |-> TRUE, ph |-> phys, rows |-> <<>>, applied |-> 0],
                        lc, items, 1)
        ok == st.ok /\ \A i \in 1..Len(items) : DOMAIN ArgsFor(lc.cols, items[i].cells) # {}
    IN IF tableID = "" \/ lc.err \/ lc.cols = {}
         THEN [ok |-> FALSE, rows |-> <<>>, phys |-> phys, applied |-> 0, began |-> FALSE]
         ELSE [ok |-> ok, rows |-> IF ok THEN st.rows ELSE <<>>,
               phys |-> TxEnd(ok, phys, st.ph), applied |-> st.applied, began |-> TRUE]

\* BulkUpsertRows without the test for a table that has no column.
BulkUpsertRowsNoColumnTest(tableID, items) ==
    LET lc == loadColumns(tableID)
        st == BulkApply([ok |-> TRUE, ph |-> phys, rows |-> <<>>, applied |-> 0],
                        lc, items, 1)
    IN IF tableID = "" \/ lc.err
         THEN [ok |-> FALSE, rows |-> <<>>, phys |-> phys, applied |-> 0, began |-> FALSE]
         ELSE [ok |-> st.ok, rows |-> IF st.ok THEN st.rows ELSE <<>>,
               phys |-> TxEnd(st.ok, phys, st.ph), applied |-> st.applied, began |-> TRUE]

\* BulkUpsertRows: the column lookup, then every item in one transaction.
BulkUpsertRows(tableID, items) ==
    LET lc == loadColumns(tableID)
        st == BulkApply([ok |-> TRUE, ph |-> phys, rows |-> <<>>, applied |-> 0],
                        lc, items, 1)
    IN IF tableID = "" \/ lc.err \/ lc.cols = {}
         THEN [ok |-> FALSE, rows |-> <<>>, phys |-> phys, applied |-> 0, began |-> FALSE]
         ELSE [ok |-> st.ok, rows |-> IF st.ok THEN st.rows ELSE <<>>,
               phys |-> TxEnd(st.ok, phys, st.ph), applied |-> st.applied, began |-> TRUE]

\* BulkDeleteRows with an empty id list refused.
BulkDeleteRowsEmptyIsError(tableID, rowIDs) ==
    LET lc == loadColumns(tableID)
        ok == /\ tableID # "" /\ ~lc.err
              /\ rowIDs # {}
              /\ PhysExists(phys, lc.schemaName, lc.tableName)
              /\ \A id \in rowIDs : IsUUID(id)
        t == PhysTable(phys, lc.schemaName, lc.tableName)
    IN [ok |-> ok, began |-> tableID # "" /\ ~lc.err /\ rowIDs # {},
        phys |-> IF ok /\ rowIDs # {}
                   THEN TxEnd(TRUE, phys,
                              PhysPut(phys, [t EXCEPT !.rows = {r \in @ : r.id \notin rowIDs}]))
                   ELSE phys]

\* BulkDeleteRows: with no id, success after the column lookup; otherwise one
\* DELETE ... WHERE id = ANY(ids) on the table loadColumns located, in a
\* transaction.
BulkDeleteRows(tableID, rowIDs) ==
    LET lc == loadColumns(tableID)
        ok == /\ tableID # "" /\ ~lc.err
              /\ rowIDs # {} => /\ PhysExists(phys, lc.schemaName, lc.tableName)
                                /\ \A id \in rowIDs : IsUUID(id)
        t == PhysTable(phys, lc.schemaName, lc.tableName)
    IN [ok |-> ok, began |-> tableID # "" /\ ~lc.err /\ rowIDs # {},
        phys |-> IF ok /\ rowIDs # {}
                   THEN TxEnd(TRUE, phys,
                              PhysPut(phys, [t EXCEPT !.rows = {r \in @ : r.id \notin rowIDs}]))
                   ELSE phys]

\* ListTables: the rows of lc_tables, each under its logical name as id.
ListTables == {t.name : t \in tables}

\* The page size ListRows falls back to, and its cap, when maxRow is unset.
DefaultPageSize == 50
HardPageCap == 100

\* A Go int as q * 2^32 + r, with r in the int32 range: int32(n) is r.
GoInt(q, r) == [q |-> q, r |-> r]
IsPositive(n) == n.q > 0 \/ (n.q = 0 /\ n.r > 0)

\* NewLowcodeService: maxRow is kept, as an int32, when positive.
NewLowcodeService(cfgMax) == IF IsPositive(cfgMax) THEN cfgMax.r ELSE 0

\* The LIMIT of the ListRows query.
PageLimit(pageSize, mr) ==
    LET ps == IF pageSize <= 0 THEN (IF mr > 0 THEN mr ELSE DefaultPageSize)
              ELSE pageSize
    IN IF mr > 0 /\ ps > mr THEN mr
       ELSE IF mr <= 0 /\ ps > HardPageCap THEN HardPageCap
       ELSE ps

\* ORDER BY id
RECURSIVE SortById(_)
SortById(rs) ==
    IF rs = {} THEN <<>>
    ELSE LET m == CHOOSE r \in rs : \A q \in rs : RowNo(r.id) <= RowNo(q.id)
         IN <<m>> \o SortById(rs \ {m})

Min(a, b) == IF a < b THEN a ELSE b

\* The scanned cells of a physical row: column id to Go value, NULLs left out.
ScanCells(cols, r) ==
    [id \in {c.id : c \in {c \in cols : r.vals[c.pg_column] # NullStored}} |->
        PgDecode(r.vals[(CHOOSE c \in cols : c.id = id).pg_column])]

\* SELECT id, cols FROM schema.table: the statement is valid.
Selectable(ph, lc) ==
    /\ PhysExists(ph, lc.schemaName, lc.tableName)
    /\ \A c \in lc.cols :
           \E k \in PhysTable(ph, lc.schemaName, lc.tableName).cols : k.name = c.pg_column

\* loadRelationshipColumns: the relationship columns among the given ids that
\* have a target table and at least one of the two links configured.
loadRelationshipColumns(tableID, columnIDs) ==
    IF columnIDs = {} THEN [err |-> FALSE, cols |-> {}]
    ELSE IF ~IsUUID(tableID) \/ \E id \in columnIDs : ~IsUUID(id)
      THEN [err |-> TRUE, cols |-> {}]
      ELSE [err |-> FALSE,
            cols |-> {[Id |-> c.id,
                       TargetTableId |-> c.config.target_table_id,
                       LinkColumnId |-> c.config.link_column_id,
                       TargetColumnId |-> c.config.target_column_id] :
                      c \in {c \in columns :
                               /\ c.table_id = tableID
                               /\ c.id \in columnIDs
                               /\ KindOf(c.type_id) = "relationship"
                               /\ c.config.target_table_id # ""
                               /\ ~(c.config.link_column_id = ""
                                    /\ c.config.target_column_id = "")}}]

\* structpb.NewValue accepts these Go values and no others.
StructOk(g) == g.go \in {"nil", "bool", "string", "[]byte", "float64", "int32", "int64", "map"}

\* structpb.NewStruct(rowMap) succeeds when every cell value is accepted.
NewStructOk(cells) == \A id \in DOMAIN cells : StructOk(cells[id])

\* fetchRelatedRows: [err, nil, list], list holding {id, cells} per related row.
fetchRelatedRows(rel, currentRowID, currentRowCells) ==
    LET lc == loadColumns(rel.TargetTableId)
        none == [err |-> FALSE, nil |-> TRUE, list |-> <<>>]
        fail == [err |-> TRUE, nil |-> TRUE, list |-> <<>>]
        link == {c \in columns : c.id = rel.LinkColumnId}
        linkPgCol == (CHOOSE c \in link : TRUE).pg_column
        t == PhysTable(phys, lc.schemaName, lc.tableName)
        relatedID == IF /\ rel.TargetColumnId \in DOMAIN currentRowCells
                        /\ currentRowCells[rel.TargetColumnId].kind = "string"
                       THEN currentRowCells[rel.TargetColumnId].v ELSE ""
        render(rs) == LET sorted == SortById(rs)
                      IN IF \E r \in rs : ~NewStructOk(ScanCells(lc.cols, r))
                           THEN fail
                           ELSE [err |-> FALSE, nil |-> rs = {},
                                 list |-> [i \in 1..Len(sorted) |->
                                             [id |-> sorted[i].id,
                                              cells |-> ScanCells(lc.cols, sorted[i])]]]
    IN IF lc.err THEN fail
       ELSE IF lc.cols = {} THEN none
       ELSE IF rel.LinkColumnId # ""
         THEN IF ~IsUUID(rel.LinkColumnId) THEN fail
              ELSE IF link = {} THEN none
              ELSE IF \/ ~Selectable(phys, lc)
                      \/ ~\E k \in t.cols : k.name = linkPgCol /\ k.pg_type = "text"
                     THEN fail
                     ELSE render({r \in t.rows :
                                    r.vals[linkPgCol] = [t |-> "text", v |-> currentRowID]})
         ELSE IF relatedID = "" THEN none
              ELSE IF ~IsUUID(relatedID) \/ ~Selectable(phys, lc) THEN fail
              ELSE render({r \in t.rows : r.id = relatedID})

\* An OFFSET read off the page token.
PageOffsetFromToken(pageToken) == IF pageToken = "" THEN 0 ELSE 1

\* The query is SELECT ... ORDER BY id LIMIT $1: it has no OFFSET, whatever
\* the request's page token.
PageOffset(pageToken) == 0

\* ListRows: the first page of the table's rows ordered by id, the requested
\* relationship columns expanded row by row.
ListRows(tableID, pageSize, pageToken, expand) ==
    LET lc == loadColumns(tableID)
        limit == PageLimit(pageSize, maxRow)
        sorted == SortById(PhysTable(phys, lc.schemaName, lc.tableName).rows)
        page == SubSeq(sorted, PageOffset(pageToken) + 1,
                       Min(PageOffset(pageToken) + limit, Len(sorted)))
        rel == loadRelationshipColumns(tableID, expand)
        base(r) == LET g == ScanCells(lc.cols, r)
                   IN [id \in DOMAIN g |-> anyToValue(g[id])]
        fetched(r, rc) == fetchRelatedRows(rc, r.id, base(r))
        relIds == {rc.Id : rc \in rel.cols}
        byId(id) == CHOOSE rc \in rel.cols : rc.Id = id
        row(r) == [id |-> r.id,
                   cells |-> [id \in DOMAIN base(r) \cup relIds |->
                                IF id \in relIds THEN Val("json", "rows")
                                ELSE base(r)[id]],
                   related |-> [id \in relIds |-> fetched(r, byId(id)).list]]
        fail == [ok |-> FALSE, rows |-> <<>>, limit |-> 0]
    IN IF tableID = "" \/ lc.err THEN fail
       ELSE IF lc.cols = {} THEN [ok |-> TRUE, rows |-> <<>>, limit |-> 0]
       ELSE IF ~Selectable(phys, lc) THEN fail
       ELSE IF /\ expand # {}
               /\ \E i \in 1..Len(page) :
                      \/ rel.err
                      \/ \E rc \in rel.cols : fetched(page[i], rc).err
              THEN fail
              ELSE [ok |-> TRUE, rows |-> [i \in 1..Len(page) |-> row(page[i])],
                    limit |-> limit]

(***************************************************************************)
(* Service calls                                                           *)
(***************************************************************************)
TableNames == {"a", "b"}
SchemaInputs == {"", "s1"}
ColumnNames == {"n1", "n2"}
AddTypes == {"text", "formula", "relationship"}

CreateTableCall ==
    \E name \in TableNames, schemaIn \in SchemaInputs :
        /\ seq < MaxIds
        /\ LET r == CreateTable(name, schemaIn) IN
            /\ tables' = r.tables
            /\ phys' = r.phys
            /\ seq' = IF r.ok THEN seq + 1 ELSE seq
            /\ last' = [op |-> "CreateTable", ok |-> r.ok, id |-> r.table.id,
                        tx |-> TxOutcome(TRUE, r.ok)]
        /\ UNCHANGED <<columns, cfgMaxRow, maxRow>>
        /\ UNCHANGED <<poolVars, migVars, indexes, physIdx>>

DeleteTableCall ==
    \E id \in TableNames \cup {"T1"} :
        \E r \in DeleteTable(id) :
            /\ tables' = r.tables
            /\ columns' = r.columns
            /\ phys' = r.phys
            /\ indexes' = {i \in indexes : \E t \in r.tables : t.id = i.table_id}
            /\ physIdx' = LiveIndexes(r.phys)
            /\ last' = [op |-> "DeleteTable", ok |-> r.ok, id |-> id, found |-> r.found,
                        cascaded |-> <<Cardinality(columns \ r.columns),
                                       Cardinality({i \in indexes :
                                           ~\E t \in r.tables : t.id = i.table_id})>>,
                        tx |-> TxOutcome(TRUE, r.ok /\ r.found),
                        changed |-> <<r.tables, r.columns, r.phys>> # <<tables, columns, phys>>]
            /\ UNCHANGED <<seq, cfgMaxRow, maxRow>>
            /\ UNCHANGED <<poolVars, migVars>>

AddColumnCall ==
    \E tid \in {t.id : t \in tables} \cup {"a"}, name \in ColumnNames,
       ty \in AddTypes, hex \in Hex8 :
        /\ seq < MaxIds
        /\ LET r == AddColumn([table_id |-> tid, name |-> name, type_id |-> ty,
                               is_nullable |-> TRUE, position |-> 0,
                               config |-> EmptyConfig], hex) IN
            /\ columns' = r.columns
            /\ phys' = r.phys
            /\ seq' = IF r.ok THEN seq + 1 ELSE seq
            /\ last' = [op |-> "AddColumn", ok |-> r.ok, table_id |-> tid,
                        virtual |-> r.virtual, pg_column |-> r.column.pg_column,
                        tx |-> TxOutcome(TRUE, r.ok),
                        altered |-> r.phys # phys]
        /\ UNCHANGED <<tables, cfgMaxRow, maxRow>>
        /\ UNCHANGED <<poolVars, migVars, indexes, physIdx>>

\* A column id no catalog row has.
UnknownColumn == "C0"

UpdateColumnCall ==
    \E id \in {c.id : c \in columns} \cup {UnknownColumn, "x"},
       name \in ColumnNames \cup {""} :
        /\ LET r == UpdateColumn([id |-> id, name |-> name, is_nullable |-> FALSE,
                                  position |-> 0, config |-> EmptyConfig]) IN
            /\ columns' = r.columns
            /\ last' = [op |-> "UpdateColumn", ok |-> r.ok, id |-> id, name |-> name]
        /\ UNCHANGED <<tables, phys, seq, cfgMaxRow, maxRow>>
        /\ UNCHANGED <<poolVars, migVars, indexes, physIdx>>

DeleteColumnCall ==
    \E id \in {c.id : c \in columns} \cup {UnknownColumn, "x"} :
        /\ LET r == DeleteColumn(id) IN
            /\ columns' = r.columns
            /\ phys' = r.phys
            /\ physIdx' = LiveIndexes(r.phys)
            /\ last' = [op |-> "DeleteColumn", ok |-> r.ok, id |-> id, found |-> r.found,
                        tx |-> TxOutcome(TRUE, r.ok /\ r.found)]
        /\ UNCHANGED <<tables, indexes, seq, cfgMaxRow, maxRow>>
        /\ UNCHANGED <<poolVars, migVars>>

IndexNames == {"i1", "i2"}

\* An index id no catalog row has.
UnknownIndex == "I0"

CreateIndexCall ==
    \E tid \in {t.id : t \in tables} \cup {"a"}, name \in IndexNames, uniq \in BOOLEAN :
        \E ids \in {K \in SUBSET ({c.id : c \in columns} \cup {UnknownColumn, "x"}) :
                        Cardinality(K) \in 1..2} :
            /\ seq < MaxIds + 1
            /\ LET r == CreateIndex([table_id |-> tid, name |-> name, column_ids |-> ids,
                                     is_unique |-> uniq]) IN
                /\ indexes' = r.indexes
                /\ physIdx' = r.physIdx
                /\ seq' = IF r.ok THEN seq + 1 ELSE seq
                /\ last' = [op |-> "CreateIndex", ok |-> r.ok, table_id |-> tid,
                            resolved |-> r.resolved, pg_index |-> r.index.pg_index,
                            tx |-> TxOutcome(r.resolved, r.ok)]
            /\ UNCHANGED <<tables, columns, phys, cfgMaxRow, maxRow>>
            /\ UNCHANGED <<poolVars, migVars>>

DeleteIndexCall ==
    \E id \in {i.id : i \in indexes} \cup {UnknownIndex, "x"} :
        /\ LET r == DeleteIndex(id) IN
            /\ indexes' = r.indexes
            /\ physIdx' = r.physIdx
            /\ last' = [op |-> "DeleteIndex", ok |-> r.ok, id |-> id, found |-> r.found,
                        tx |-> TxOutcome(TRUE, r.ok /\ r.found)]
        /\ UNCHANGED <<tables, columns, phys, seq, cfgMaxRow, maxRow>>
        /\ UNCHANGED <<poolVars, migVars>>

\* The schema the row calls run against: table a with a text column and two
\* relationship columns, table b with a text column holding a row id of a, a
\* timestamp column and a relationship column back to a.
Col(id, tid, name, ty, pg, cfg) ==
    [id |-> id, table_id |-> tid, name |-> name, type_id |-> ty, pg_column |-> pg,
     is_nullable |-> TRUE, position |-> 0, config |-> cfg]

RowsTables ==
    {[id |-> "T1", name |-> "a", schema_name |-> DefaultSchema, table_name |-> "lc_t_a"],
     [id |-> "T2", name |-> "b", schema_name |-> DefaultSchema, table_name |-> "lc_t_b"]}

RowsColumns ==
    {Col("C3", "T2", "parent", "text", "c_00000003", EmptyConfig),
     Col("C4", "T2", "at", "timestamp", "c_00000004", EmptyConfig),
     Col("C5", "T1", "title", "text", "c_00000005", EmptyConfig),
     Col("C6", "T1", "kids", "relationship", "v_00000006",
         [target_table_id |-> "T2", link_column_id |-> "C3", target_column_id |-> ""]),
     Col("C7", "T1", "none", "relationship", "v_00000007", EmptyConfig),
     Col("C8", "T2", "owner", "relationship", "v_00000008",
         [target_table_id |-> "T1", link_column_id |-> "", target_column_id |-> "C3"])}

RowsPhys ==
    {[schema |-> t.schema_name, name |-> t.table_name,
      cols |-> {[name |-> c.pg_column, pg_type |-> PgTypeOf(c.type_id), notnull |-> FALSE] :
                c \in {c \in RowsColumns : c.table_id = t.id /\ ~IsVirtual(c.type_id)}},
      rows |-> {}] : t \in RowsTables}

\* MAX_ROW as configured: unset, 1, and 2^32 + 1.
MaxRowConfigs == {GoInt(0, 0), GoInt(0, 1), GoInt(1, 1)}

CellValues == {Val("string", "R1"), Val("timestamp", "t"), Val("null", "")}
CellKeys(tid) == {c.id : c \in {c \in columns : c.table_id = tid}} \cup {UnknownColumn}
CellInputs(tid) ==
    UNION {[K -> CellValues] : K \in {K \in SUBSET CellKeys(tid) : Cardinality(K) <= 2}}

CreateRowCall ==
    \E tid \in {t.id : t \in tables} :
        \E cells \in CellInputs(tid) :
            /\ Cardinality(UsedRowIds(phys)) < MaxRows
            /\ LET r == CreateRow(tid, cells) IN
                /\ phys' = r.phys
                /\ last' = [op |-> "CreateRow", ok |-> r.ok, id |-> r.id,
                            table_id |-> tid, cells |-> r.cells]
            /\ UNCHANGED <<tables, columns, seq, cfgMaxRow, maxRow>>
            /\ UNCHANGED <<poolVars, migVars, indexes, physIdx>>

PageSizes == {0, 2, 200}
PageTokens == {"", "1"}
ExpandInputs == {{}, {"C6"}, {"C7"}, {"C8"}}

ListRowsCall ==
    \E tid \in {t.id : t \in tables}, pageSize \in PageSizes,
       pageToken \in PageTokens, expand \in ExpandInputs :
        /\ LET r == ListRows(tid, pageSize, pageToken, expand) IN
            last' = [op |-> "ListRows", ok |-> r.ok, table_id |-> tid,
                     page_size |-> pageSize, page_token |-> pageToken, expand |-> expand,
                     rows |-> r.rows, limit |-> r.limit]
        /\ UNCHANGED <<tables, columns, phys, seq, cfgMaxRow, maxRow>>
        /\ UNCHANGED <<poolVars, migVars, indexes, physIdx>>

\* Row ids a DeleteRow names: the rows there are, and one no row has.
DeleteRowIds == UsedRowIds(phys) \cup {RowId(MaxRows + 1)}

DeleteRowCall ==
    \E tid \in {t.id : t \in tables}, rid \in DeleteRowIds :
        /\ LET r == DeleteRow(tid, rid) IN
            /\ phys' = r.phys
            /\ last' = [op |-> "DeleteRow", ok |-> r.ok, table_id |-> tid, row_id |-> rid,
                        removed |-> UsedRowIds(phys) \ UsedRowIds(r.phys)]
        /\ UNCHANGED <<tables, columns, seq, cfgMaxRow, maxRow>>
        /\ UNCHANGED <<poolVars, migVars, indexes, physIdx>>

\* The cell maps an UpdateRow carries: empty, or one cell.
UpdateCells(tid) == {cells \in CellInputs(tid) : Cardinality(DOMAIN cells) <= 1}

UpdateRowCall ==
    \E tid \in {t.id : t \in tables}, rid \in DeleteRowIds :
        \E cells \in UpdateCells(tid) :
            /\ LET r == UpdateRow(tid, rid, cells) IN
                /\ phys' = r.phys
                /\ last' = [op |-> "UpdateRow", ok |-> r.ok, id |-> r.id,
                            table_id |-> tid, row_id |-> rid, cells |-> r.cells]
            /\ UNCHANGED <<tables, columns, seq, cfgMaxRow, maxRow>>
            /\ UNCHANGED <<poolVars, migVars, indexes, physIdx>>

BulkRowIds == {"", "R1", "x"}
BulkCells == {[k \in {"C3"} |-> Val("string", "R1")],
              [k \in {"C4"} |-> Val("timestamp", "t")],
              [k \in {"C4"} |-> Val("string", "R1")],
              [k \in {UnknownColumn} |-> Val("string", "R1")]}
BulkItems == {[row_id |-> id, cells |-> cells] : id \in BulkRowIds, cells \in BulkCells}
BulkInputs == {<<i>> : i \in BulkItems} \cup {<<i, j>> : i \in BulkItems, j \in BulkItems}

BulkUpsertRowsCall ==
    \E items \in BulkInputs :
        /\ Cardinality(UsedRowIds(phys))
             + Cardinality({i \in 1..Len(items) : items[i].row_id = ""}) <= MaxRows
        /\ LET r == BulkUpsertRows("T2", items) IN
            /\ phys' = r.phys
            /\ last' = [op |-> "BulkUpsertRows", ok |-> r.ok, applied |-> r.applied,
                        failed |-> r.began /\ ~r.ok, returned |-> Len(r.rows),
                        changed |-> r.phys # phys,
                        table_id |-> "T2", items |-> items, rows |-> r.rows,
                        tx |-> TxOutcome(r.began, r.ok)]
        /\ UNCHANGED <<tables, columns, seq, cfgMaxRow, maxRow>>
        /\ UNCHANGED <<poolVars, migVars, indexes, physIdx>>

\* The id lists a BulkDeleteRows carries: row ids there are, one no row has,
\* and one that is not the text of a uuid.
BulkDeleteIds == (SUBSET DeleteRowIds) \cup {{"x"}}

BulkDeleteRowsCall ==
    \E tid \in {t.id : t \in tables}, ids \in BulkDeleteIds :
        /\ LET r == BulkDeleteRows(tid, ids) IN
            /\ phys' = r.phys
            /\ last' = [op |-> "BulkDeleteRows", ok |-> r.ok, table_id |-> tid, row_ids |-> ids,
                        tx |-> TxOutcome(r.began, r.ok /\ r.began)]
        /\ UNCHANGED <<tables, columns, seq, cfgMaxRow, maxRow>>
        /\ UNCHANGED <<poolVars, migVars, indexes, physIdx>>

(***************************************************************************)
(* Specifications                                                          *)
(***************************************************************************)
vars == <<poolVars, migVars, svcVars>>

PoolInit == (PoolInitSingle \/ PoolInitMulti) /\ PoolInitCommon

\* The migrated tenant database: what Migrate leaves behind.
MigratedDB ==
    /\ ledgerExists = TRUE
    /\ ledger = Versions
    /\ catalogs = MetaStmts
    /\ types = CoreTypes \cup VirtualTypes
    /\ mig = [p \in Procs |-> MigIdle]
    /\ mruns = 0

\* No user table yet, no request served yet.
ServiceInit ==
    /\ tables = {}
    /\ columns = {}
    /\ phys = {}
    /\ indexes = {}
    /\ physIdx = {}
    /\ seq = 0
    /\ cfgMaxRow = GoInt(0, 0)
    /\ maxRow = NewLowcodeService(cfgMaxRow)
    /\ last = [op |-> "none"]

PoolForNext ==
    \E p \in Procs :
        \/ \E t \in TenantIds \cup {NoTenant} : PoolForCall(p, t)
        \/ PoolForRLock(p)
        \/ PoolForRCheck(p)
        \/ PoolForWLock(p)
        \/ PoolForWCheck(p)
        \/ PoolForOpen(p)
        \/ PoolForPublish(p)
        \/ PoolForUnlock(p)
        \/ Finish(p)

CreateTenantNext ==
    \E p \in Procs :
        \/ \E t \in TenantIds \cup {NoTenant} : CreateTenantCall(p, t)
        \/ CreateTenantCreateDB(p)
        \/ CreateTenantOpen(p)
        \/ CreateTenantEnsure(p)
        \/ CreateTenantLock(p)
        \/ CreateTenantSwap(p)
        \/ CreateTenantUnlock(p)

\* Requests that only call PoolFor.
InitPool == PoolInit /\ MigratedDB /\ ServiceInit

SpecPoolFor == InitPool /\ [][PoolForNext]_vars

\* Requests that call PoolFor and CreateTenant in any interleaving.
SpecPool == InitPool /\ [][PoolForNext \/ CreateTenantNext]_vars

\* The steps of the call that process p is in: the lock operations, the map
\* accesses and the backend calls of poolForTenant and CreateTenant.
PoolStep(p) ==
    \/ PoolForRLock(p) \/ PoolForRCheck(p) \/ PoolForWLock(p) \/ PoolForWCheck(p)
    \/ PoolForOpen(p) \/ PoolForPublish(p) \/ PoolForUnlock(p)
    \/ CreateTenantCreateDB(p) \/ CreateTenantOpen(p) \/ CreateTenantEnsure(p)
    \/ CreateTenantLock(p) \/ CreateTenantSwap(p) \/ CreateTenantUnlock(p)

\* SpecPool under fair scheduling: a goroutine that can take its next step
\* takes it, a backend call returns, and a goroutine waiting for a free
\* sync.RWMutex gets it.
SpecPoolFair == SpecPool /\ \A p \in Procs : WF_vars(PoolStep(p))

\* Requests under any tenant id the header can carry, in multi-tenant mode.
TenantsNext ==
    \E p \in Procs :
        \/ \E t \in AllTenantIds : PoolForCall(p, t)
        \/ PoolForRLock(p)
        \/ PoolForRCheck(p)
        \/ PoolForWLock(p)
        \/ PoolForWCheck(p)
        \/ PoolForOpen(p)
        \/ PoolForPublish(p)
        \/ PoolForUnlock(p)
        \/ Finish(p)
        \/ \E t \in AllTenantIds : CreateTenantCall(p, t)
        \/ CreateTenantCreateDB(p)
        \/ CreateTenantOpen(p)
        \/ CreateTenantEnsure(p)
        \/ CreateTenantLock(p)
        \/ CreateTenantSwap(p)
        \/ CreateTenantUnlock(p)

InitTenants == PoolInitMulti /\ PoolInitCommon /\ MigratedDB /\ ServiceInit

SpecTenants == InitTenants /\ [][TenantsNext]_vars

\* Migrate runs, one or several at a time, against one tenant database.
InitMigrate == PoolInitMulti /\ PoolInitCommon /\ MigrateInit /\ ServiceInit

SpecMigrate == InitMigrate /\ [][MigrateNext]_vars

InitSchema == PoolInitSingle /\ PoolInitCommon /\ MigratedDB /\ ServiceInit

SpecSchema == InitSchema /\ [][CreateTableCall \/ DeleteTableCall \/ AddColumnCall]_vars

\* Tables and columns created, rows created and deleted, columns deleted.
SpecDeleteRow ==
    InitSchema /\ [][CreateTableCall \/ AddColumnCall \/ DeleteColumnCall
                       \/ CreateRowCall \/ DeleteRowCall]_vars

\* Tables and columns created, rows created and deleted in bulk, columns
\* deleted.
SpecBulkDelete ==
    InitSchema /\ [][CreateTableCall \/ AddColumnCall \/ DeleteColumnCall
                       \/ CreateRowCall \/ BulkDeleteRowsCall]_vars

\* The handlers that open a transaction.  Tables are created in the default
\* schema; rows are written once every id the bound allows has gone to
\* tables and columns, in batches of one item; indexes are created while no
\* table holds a row.
SpecTx ==
    InitSchema /\ [][(CreateTableCall /\ \A t \in tables' : t.schema_name = DefaultSchema)
                       \/ DeleteTableCall \/ AddColumnCall \/ DeleteColumnCall
                       \/ (UsedRowIds(phys) = {} /\ CreateIndexCall)
                       \/ DeleteIndexCall
                       \/ (indexes = {} /\ seq = MaxIds /\ BulkUpsertRowsCall
                             /\ Len(last'.items) = 1)
                       \/ (indexes = {} /\ seq = MaxIds /\ BulkDeleteRowsCall)]_vars

\* Indexes created and deleted on tables that hold no rows; the columns they
\* are on can be deleted.
SpecIndexes ==
    InitSchema /\ [][CreateTableCall \/ AddColumnCall \/ DeleteColumnCall
                       \/ CreateIndexCall \/ DeleteIndexCall]_vars

\* Tables created and deleted, columns added and deleted.
SpecCatalog ==
    InitSchema /\ [][CreateTableCall \/ DeleteTableCall \/ AddColumnCall \/ DeleteColumnCall]_vars

\* Tables created, then columns added, changed and deleted.
SpecColumns ==
    InitSchema /\ [][CreateTableCall \/ AddColumnCall \/ UpdateColumnCall \/ DeleteColumnCall]_vars

InitRows ==
    /\ PoolInitSingle /\ PoolInitCommon /\ MigratedDB
    /\ tables = RowsTables
    /\ columns = RowsColumns
    /\ phys = RowsPhys
    /\ indexes = {}
    /\ physIdx = {}
    /\ seq = 8
    /\ cfgMaxRow \in MaxRowConfigs
    /\ maxRow = NewLowcodeService(cfgMaxRow)
    /\ last = [op |-> "none"]

SpecRows == InitRows /\ [][CreateRowCall \/ ListRowsCall]_vars

\* Rows created and then updated.
SpecUpdateRow == InitRows /\ [][CreateRowCall \/ UpdateRowCall]_vars

SpecBulk == InitRows /\ [][BulkUpsertRowsCall]_vars

\* UpdateColumn over the catalog of the row service, whose relationship columns
\* carry a configuration.
SpecUpdateColumn == InitRows /\ [][UpdateColumnCall]_vars

(***************************************************************************)
(* Claims about the tenant pool manager                                    *)
(***************************************************************************)
PoolsOpenedBy(t, by) == {i \in 1..Len(opened) : opened[i].db = t /\ opened[i].by = by}

\* C1: with requests racing through PoolFor for tenant ids that are not yet in
\* the pool map, poolForTenant opens at most one pool per tenant id; a pool it
\* opened is in the tenant->pool map unless its opener still holds the write
\* lock; and every request PoolFor handed a pool to holds the map's one pool
\* for its tenant id.
C1_OnePoolPerTenant ==
    mode = TenantModeMulti =>
        /\ \A t \in TenantIds : Cardinality(PoolsOpenedBy(t, "PoolFor")) <= 1
        /\ \A i \in 1..Len(opened) :
               \/ pools[opened[i].db] = i
               \/ mu.writer # NoProc /\ pool[mu.writer] = i /\ pc[mu.writer] = "pf_publish"
        /\ \A p \in Procs :
               pc[p] = "using" =>
                   /\ ret[p].pool # NoPool
                   /\ ret[p].pool = pools[tenantID[p]]

\* Two requests raced for the same tenant id: the loser went through the
\* double-check and both hold the winner's pool.
C1_Witness ==
    \E p, q \in Procs :
        /\ p # q
        /\ mode = TenantModeMulti
        /\ pc[p] = "using" /\ pc[q] = "using"
        /\ tenantID[p] = tenantID[q]
        /\ pool[p] # NoPool /\ pool[q] = pool[p]
        /\ ret[p].pool = pool[p] /\ ret[q].pool = pool[p]

\* C2: every pool PoolFor returns points at a tenant database that exists, has
\* its catalogs in place and was bootstrapped exactly once.
C2_PoolForProvisions ==
    \A p \in Procs :
        (mode = TenantModeMulti /\ op[p] = "PoolFor" /\ pc[p] = "using") =>
            /\ opened[ret[p].pool].db \in databases
            /\ metaLevel[opened[ret[p].pool].db] = MetaStmts
            /\ ensureRuns[opened[ret[p].pool].db] = 1

\* C14: in multi-tenant mode a PoolFor whose context carries no tenant id
\* returns an error and no pool in its first step, with the lock, the opened
\* pools and the pool map as they were, and is never at a locking or opening
\* position; in single-tenant mode every PoolFor, whatever its tenant id,
\* returns the one shared pool and no error.
C14_PoolForTenantIdTest ==
    /\ [](\A p \in Procs :
             (op[p] = "PoolFor" /\ pc[p] # "idle") =>
                 IF mode = TenantModeSingle
                   THEN /\ pc[p] = "using"
                        /\ ret[p] = [pool |-> singlePool, err |-> FALSE]
                        /\ singlePool # NoPool
                   ELSE tenantID[p] = NoTenant =>
                            /\ pc[p] = "returned"
                            /\ ret[p] = [pool |-> NoPool, err |-> TRUE]
                            /\ mu.writer # p /\ p \notin mu.readers)
    /\ [][\A p \in Procs :
             (pc[p] = "idle" /\ op'[p] = "PoolFor" /\
              (mode = TenantModeSingle \/ tenantID'[p] = NoTenant)) =>
                 /\ mu' = mu
                 /\ opened' = opened
                 /\ pools' = pools]_vars

\* In multi-tenant mode a PoolFor without a tenant id got its error while
\* another request holds the write lock, and the pool map has an entry.
C14_Witness ==
    \E p \in Procs :
        /\ mode = TenantModeMulti
        /\ op[p] = "PoolFor" /\ tenantID[p] = NoTenant
        /\ pc[p] = "returned" /\ ret[p].err
        /\ mu.writer \notin {NoProc, p}
        /\ \E t \in TenantIds : pools[t] # NoPool

\* C15: the step at which PoolFor or CreateTenant fails for a tenant id (the
\* pool cannot be opened, the database cannot be created, the bootstrap
\* fails) leaves the tenant->pool map as it was, and the error reaches the
\* caller; nothing remembers the failure: a later PoolFor that finds no pool
\* for the tenant id goes on to open one, and a later CreateTenant starts
\* with CREATE DATABASE again.
C15_FailureLeavesMapForRetry ==
    [][\A p \in Procs :
          /\ (mode = TenantModeMulti /\ tenantID'[p] # NoTenant /\
               ~ret[p].err /\ ret'[p].err) =>
                  /\ pools' = pools
                  /\ ret'[p].pool = NoPool
                  /\ pc'[p] \in {"pf_unlock", "returned"}
          /\ (pc[p] = "pf_unlock" /\ ret[p].err /\ pc'[p] # pc[p]) =>
                  /\ pc'[p] = "returned" /\ ret'[p] = ret[p]
                  /\ pools' = pools
          /\ (pc[p] = "pf_wcheck" /\ pools[tenantID[p]] = NoPool /\ pc'[p] # pc[p]) =>
                  pc'[p] = "pf_open"
          /\ (pc[p] = "idle" /\ op'[p] = "CreateTenant" /\
               mode = TenantModeMulti /\ tenantID'[p] # NoTenant) =>
                  pc'[p] = "ct_createdb"]_vars

\* A CreateTenant failed in its bootstrap and closed its pool; the tenant id
\* stayed without a pool, and a later PoolFor opened and cached one.
C15_Witness ==
    \E i \in 1..Len(opened), j \in 1..Len(opened) :
        /\ i < j
        /\ opened[i].db = opened[j].db
        /\ opened[i].by = "CreateTenant" /\ opened[i].closed
        /\ opened[j].by = "PoolFor" /\ ~opened[j].closed
        /\ pools[opened[j].db] = j

\* The pools a request holds in a local variable before the map has them.
InFlight ==
    {pool[q] : q \in {r \in Procs : pc[r] \in {"pf_publish", "ct_ensure", "ct_lock", "ct_swap"}}}

\* C16: when a CreateTenant for tenant id T has returned without error, T's
\* database exists and is bootstrapped, the map entry for T is an open pool
\* that a CreateTenant opened, and every other pool ever opened for T is
\* closed unless a request that has not written the map yet still holds it;
\* the step that writes the map is taken under the write lock, puts the new
\* pool under T and closes the pool that was cached for T.
C16_CreateTenantReplacesPool ==
    /\ [](\A p \in Procs :
             (op[p] = "CreateTenant" /\ pc[p] = "returned" /\ ~ret[p].err) =>
                 LET T == tenantID[p]
                 IN /\ T \in databases
                    /\ metaLevel[T] = MetaStmts
                    /\ pools[T] # NoPool
                    /\ opened[pools[T]] = [db |-> T, closed |-> FALSE, by |-> "CreateTenant"]
                    /\ \A i \in 1..Len(opened) :
                           (opened[i].db = T /\ i # pools[T] /\ i \notin InFlight) =>
                               opened[i].closed)
    /\ [][\A p \in Procs :
             (pc[p] = "ct_swap" /\ pc'[p] # pc[p]) =>
                 /\ mu.writer = p
                 /\ pools' = [pools EXCEPT ![tenantID[p]] = pool[p]]
                 /\ ~opened'[pool[p]].closed
                 /\ pools[tenantID[p]] # NoPool => opened'[pools[tenantID[p]]].closed]_vars

\* CreateTenant returned without error for a tenant id whose database
\* existed already and for which PoolFor had cached a pool: that pool is
\* closed and the map holds the new one.
C16_Witness ==
    \E p \in Procs, i \in 1..Len(opened) :
        /\ op[p] = "CreateTenant" /\ pc[p] = "returned" /\ ~ret[p].err
        /\ opened[i].db = tenantID[p]
        /\ opened[i].by = "PoolFor" /\ opened[i].closed
        /\ pools[tenantID[p]] # i
        /\ ensureRuns[tenantID[p]] = 2

\* C17: once the tenant->pool map has an entry for a tenant id it has one in
\* every later state: no step of PoolFor or CreateTenant removes a key.
C17_PoolsNeverEvicted ==
    [][\A t \in AllTenantIds : pools[t] # NoPool => pools'[t] # NoPool]_vars

\* The entry of a tenant id was replaced by CreateTenant and the tenant id is
\* still a key of the map while a later PoolFor for it got the new pool.
C17_Witness ==
    \E p \in Procs, i \in 1..Len(opened) :
        /\ op[p] = "PoolFor" /\ pc[p] = "using"
        /\ opened[i].db = DatabaseOf(tenantID[p]) /\ opened[i].closed
        /\ opened[i].by = "PoolFor"
        /\ ret[p].pool = pools[tenantID[p]]
        /\ opened[ret[p].pool].by = "CreateTenant"

\* C13: in multi-tenant mode requests carried out under different tenant ids
\* never work on the same database: the pools PoolFor handed to two requests
\* whose tenant ids differ connect to different databases, so nothing issued
\* under one tenant id can reach the catalogs, tables or rows of another.
C13_TenantsNeverShareADatabase ==
    \A p \in Procs, q \in Procs :
        (/\ mode = TenantModeMulti
         /\ op[p] = "PoolFor" /\ pc[p] = "using"
         /\ op[q] = "PoolFor" /\ pc[q] = "using"
         /\ tenantID[p] # tenantID[q]) =>
            opened[ret[p].pool].db # opened[ret[q].pool].db

(***************************************************************************)
(* Claims about the migration runner                                       *)
(***************************************************************************)
\* C4: a Migrate run that starts on a database whose ledger already holds
\* every step version changes neither the ledger nor the catalogs, and
\* returns no error unless the backend fails one of its two statements.
C4_MigrateAgainChangesNothing ==
    \A p \in Procs :
        (mig[p].pc # "idle" /\ mig[p].again) =>
            /\ DBState = mig[p].before
            /\ (mig[p].pc = "done" /\ ~mig[p].fault) => ~mig[p].err

\* A second Migrate run has returned without error on a migrated database.
C4_Witness ==
    \E p \in Procs :
        /\ mig[p].again
        /\ mig[p].pc = "done"
        /\ ~mig[p].err
        /\ ledger = Versions
        /\ types = CoreTypes \cup VirtualTypes

\* C20: a Migrate run goes through the steps in ascending version order; it
\* applies a step only when the step's version is above the highest version
\* it read from the ledger and skips a step only when it is not; it records a
\* version only right after applying that step; and in every state the ledger
\* is prefix-closed: with a version it holds every lower step version.
C20_AscendingAndPrefixClosed ==
    /\ [](\A v \in ledger : \A w \in Versions : w < v => w \in ledger)
    /\ [][\A p \in Procs :
            /\ (mig[p].pc = "m_loop" /\ mig'[p].pc = "m_record") =>
                   /\ mig'[p].si = mig[p].si
                   /\ steps[mig[p].si].Version > mig[p].current
                   /\ \A k \in 1..(mig[p].si - 1) :
                          steps[k].Version < steps[mig[p].si].Version
            /\ (mig[p].pc = "m_loop" /\ mig'[p].pc = "m_loop" /\ mig'[p] # mig[p]) =>
                   /\ mig'[p].si = mig[p].si + 1
                   /\ steps[mig[p].si].Version <= mig[p].current
                   /\ ledger' = ledger
            /\ (mig[p].pc = "m_record" /\ mig'[p] # mig[p]) =>
                   /\ ledger' \in {ledger, ledger \cup {steps[mig[p].si].Version}}
                   /\ mig'[p].pc = "m_loop" =>
                          /\ mig'[p].si = mig[p].si + 1
                          /\ steps[mig[p].si].Version \in ledger' \ ledger
            /\ (\A q \in Procs : mig[q].pc # "m_record") => ledger' = ledger]_vars

\* A run that found version 1 recorded skipped step 1, applied step 2 and is
\* about to record it.
C20_Witness ==
    \E p \in Procs :
        /\ mig[p].pc = "m_record"
        /\ mig[p].current = 1
        /\ steps[mig[p].si].Version = 2
        /\ ledger = {1}

\* C21: a Migrate run that the backend failed no statement of returns without
\* error, also when another run bootstraps the same database at the same
\* time, and no two rows of the types catalog share a name.
C21_RacingMigrateBothSucceed ==
    /\ \A p \in Procs : (mig[p].pc = "done" /\ ~mig[p].fault) => ~mig[p].err
    /\ \A t \in types, u \in types : t.name = u.name => t = u

\* The names and kinds of the types Migrate is to seed.
SeededTypeNames == {"text", "number", "boolean", "timestamp", "json", "formula", "relationship"}

\* C22: whenever a Migrate run has returned, each version is in the ledger
\* exactly when its step's effect is there: with version 1 recorded the five
\* catalogs exist and the core types are seeded, without it the run left no
\* catalog and no core type behind that was not there before; with version 2
\* recorded the virtual types are seeded, without it none of them is.
C22_StepAndRecordAtomic ==
    \A p \in Procs :
        mig[p].pc = "done" =>
            /\ IF 1 \in ledger
                 THEN catalogs = MetaStmts /\ CoreTypes \subseteq types
                 ELSE catalogs = mig[p].before[3] /\ types \cap CoreTypes = {}
            /\ IF 2 \in ledger
                 THEN VirtualTypes \subseteq types
                 ELSE types \cap VirtualTypes = {}

\* C23: once a Migrate run has returned without error, the types catalog has
\* exactly one row of each of the names text, number, boolean, timestamp,
\* json, formula and relationship; formula and relationship carry their name
\* as config kind, the others carry none.
C23_SeededTypes ==
    (\E p \in Procs : mig[p].pc = "done" /\ ~mig[p].err) =>
        \A n \in SeededTypeNames :
            /\ Cardinality({t \in types : t.name = n}) = 1
            /\ \A t \in types :
                   t.name = n => t.kind = (IF n \in {"formula", "relationship"} THEN n ELSE "")

(***************************************************************************)
(* Claims about the table and column handlers                              *)
(***************************************************************************)
\* C5: DeleteTable for an id with no catalog entry succeeds and changes
\* nothing; after a DeleteTable of some id, a second DeleteTable of the same
\* id succeeds too, whichever row it could pick, and leaves the catalog and
\* the physical tables as the first call left them.
C5_DeleteTableTwice ==
    last.op = "DeleteTable" =>
        /\ last.ok
        /\ ~last.found => ~last.changed
        /\ \A r \in DeleteTable(last.id) :
               /\ r.ok
               /\ r.tables = tables /\ r.columns = columns /\ r.phys = phys

\* A DeleteTable that found its table and removed it together with a column.
C5_Witness ==
    /\ last.op = "DeleteTable" /\ last.found /\ last.changed
    /\ \E c \in columns : TRUE
    /\ ~\E t \in tables : t.name = last.id

\* C11: the catalog rows of lc_tables and the physical user tables correspond
\* one to one: every catalog row names an existing physical table, no two
\* rows name the same one, and every physical table has a catalog row.
C11_CatalogMatchesPhysical ==
    /\ \A t \in tables : PhysExists(phys, t.schema_name, t.table_name)
    /\ \A t \in tables, u \in tables :
           (t.schema_name = u.schema_name /\ t.table_name = u.table_name) => t = u
    /\ \A pt \in phys :
           \E t \in tables : t.schema_name = pt.schema /\ t.table_name = pt.name

\* C12: for a logical name that already has a table in a schema, CreateTable
\* of the same name in the same schema succeeds and adds one catalog row and
\* one physical table, distinct from the existing ones.
C12_DuplicateLogicalName ==
    \A name \in TableNames, schemaIn \in SchemaInputs :
        (\E t \in tables :
             /\ t.name = name
             /\ t.schema_name = (IF schemaIn = "" THEN DefaultSchema ELSE schemaIn)) =>
            LET r == CreateTable(name, schemaIn)
            IN /\ r.ok
               /\ Cardinality(r.tables) = Cardinality(tables) + 1
               /\ Cardinality(r.phys) = Cardinality(phys) + 1

ColumnsOf(tid) == {c \in columns : c.table_id = tid}

\* C6: a successful AddColumn of a formula or relationship type leaves the
\* physical tables unaltered, and in every table no virtual column's recorded
\* physical name is the physical name of one of its physical columns, neither
\* in the catalog nor in the physical table itself.
C6_VirtualColumnIsNotPhysical ==
    /\ (last.op = "AddColumn" /\ last.ok /\ last.virtual) => ~last.altered
    /\ \A t \in tables : \A v \in ColumnsOf(t.id) :
           IsVirtual(v.type_id) =>
               /\ \A c \in ColumnsOf(t.id) : ~IsVirtual(c.type_id) => c.pg_column # v.pg_column
               /\ \A pt \in phys :
                      (pt.schema = t.schema_name /\ pt.name = t.table_name) =>
                          \A k \in pt.cols : k.name # v.pg_column

\* A virtual column was just added to a table that has a physical column whose
\* name was built from the same eight digits.
C6_Witness ==
    /\ last.op = "AddColumn" /\ last.ok /\ last.virtual
    /\ \E v \in ColumnsOf(last.table_id), c \in ColumnsOf(last.table_id), h \in Hex8 :
           /\ v.pg_column = last.pg_column /\ v.pg_column = "v_" \o h
           /\ ~IsVirtual(c.type_id) /\ c.pg_column = "c_" \o h

\* C18: after any sequence of AddColumn, UpdateColumn and DeleteColumn calls
\* no two catalog columns of one table share a name or a physical column
\* name; an AddColumn or UpdateColumn that fails changes neither the catalog
\* nor the physical tables, and an UpdateColumn to a name another column of
\* the table has fails.
C18_ColumnNamesUnique ==
    /\ [](\A c \in columns, d \in columns :
             (c.table_id = d.table_id /\ c # d) =>
                 (c.name # d.name /\ c.pg_column # d.pg_column))
    /\ [][/\ (last'.op \in {"AddColumn", "UpdateColumn"} /\ ~last'.ok) =>
                 (columns' = columns /\ phys' = phys)
          /\ (last'.op = "UpdateColumn" /\
              (\E c \in columns, d \in columns :
                   /\ c.id = last'.id /\ d # c
                   /\ d.table_id = c.table_id /\ d.name = last'.name)) =>
                 ~last'.ok]_vars

\* An UpdateColumn to the name of another column of the table was refused.
C18_Witness ==
    /\ last.op = "UpdateColumn" /\ ~last.ok
    /\ \E c \in columns, d \in columns :
           /\ c.id = last.id /\ d # c
           /\ d.table_id = c.table_id /\ d.name = last.name

\* C24: after any sequence of AddColumn, DeleteColumn and DeleteTable calls
\* every catalog table has its physical table, whose columns besides id are
\* exactly the physical names of the table's non-virtual catalog columns; an
\* AddColumn that fails changes neither the catalog nor the physical tables.
C24_PhysicalColumnsMatchCatalog ==
    /\ [](\A t \in tables :
             /\ PhysExists(phys, t.schema_name, t.table_name)
             /\ {k.name : k \in PhysTable(phys, t.schema_name, t.table_name).cols}
                  = {c.pg_column : c \in {d \in ColumnsOf(t.id) : ~IsVirtual(d.type_id)}})
    /\ [][(last'.op = "AddColumn" /\ ~last'.ok) =>
              (columns' = columns /\ phys' = phys)]_vars

\* An AddColumn of a physical type failed on its catalog row, after an ALTER
\* TABLE that the physical table had no reason to refuse.
C24_Witness ==
    /\ last.op = "AddColumn" /\ ~last.ok /\ ~last.virtual
    /\ \E t \in tables :
           /\ t.id = last.table_id
           /\ \A k \in PhysTable(phys, t.schema_name, t.table_name).cols :
                  k.name # last.pg_column
           /\ ColumnsOf(t.id) # {}

C26_UpdateColumnFrame ==
    [][last'.op = "UpdateColumn" =>
          /\ tables' = tables /\ phys' = phys
          /\ IF \E c \in columns : c.id = last'.id
               THEN LET c == CHOOSE c \in columns : c.id = last'.id
                    IN /\ columns \ {c} \subseteq columns'
                       /\ Cardinality(columns') = Cardinality(columns)
                       /\ \E n \in columns' :
                              /\ n.id = c.id /\ n.table_id = c.table_id
                              /\ n.type_id = c.type_id /\ n.pg_column = c.pg_column
                              /\ last'.ok => n.name = (IF last'.name = "" THEN c.name
                                                       ELSE last'.name)
               ELSE ~last'.ok /\ columns' = columns]_vars

\* A physical column was renamed in the catalog; its table has another
\* column, and the physical table still carries the column's physical name.
C26_Witness ==
    /\ last.op = "UpdateColumn" /\ last.ok /\ last.name # ""
    /\ \E c \in columns, d \in columns, pt \in phys :
           /\ c.id = last.id /\ c.name = last.name /\ ~IsVirtual(c.type_id)
           /\ d # c /\ d.table_id = c.table_id
           /\ \E k \in pt.cols : k.name = c.pg_column

\* The physical indexes the catalog rows is name, and the names of the
\* physical indexes xs, each as <<schema, index name>>.
NamedBy(is) ==
    UNION {{<<t.schema_name, i.pg_index>> : t \in {u \in tables : u.id = i.table_id}} : i \in is}
NamesOf(xs) == {<<x.schema, x.name>> : x \in xs}

RowsOf(tid) ==
    LET t == CHOOSE t \in tables : t.id = tid
    IN PhysTable(phys, t.schema_name, t.table_name).rows

\* C19: a DeleteRow with the id of a table of the catalog and a row id
\* succeeds, whether or not a row has that id and whatever columns the table
\* has; afterwards no row has that id, and no other row is gone.
C19_DeleteRow ==
    (last.op = "DeleteRow" /\ \E t \in tables : t.id = last.table_id) =>
        /\ last.ok
        /\ last.removed \subseteq {last.row_id}
        /\ last.row_id \notin {r.id : r \in RowsOf(last.table_id)}

\* C3: after a successful CreateRow on a table, with the table's rows within
\* the page limit, ListRows returns a row with the returned id whose cells
\* are the supplied cells of the table's known non-virtual columns (a cell
\* holding no value counting as not supplied), each under its column id.
C3_CreateRowThenListRows ==
    (/\ last.op = "CreateRow" /\ last.ok
     /\ Cardinality(RowsOf(last.table_id)) <= PageLimit(0, maxRow)) =>
        LET lr == ListRows(last.table_id, 0, "", {})
            kept == {k \in DOMAIN last.cells :
                       /\ \E c \in ColumnsOf(last.table_id) : c.id = k /\ ~IsVirtual(c.type_id)
                       /\ last.cells[k].kind # "null"}
        IN /\ lr.ok
           /\ \E i \in 1..Len(lr.rows) :
                  /\ lr.rows[i].id = last.id
                  /\ lr.rows[i].cells = [k \in kept |-> last.cells[k]]

\* The limit the page-size rule gives for a configured MAX_ROW and a request.
ConfiguredLimit(cfgMax, pageSize) ==
    IF pageSize <= 0
      THEN IF IsPositive(cfgMax) THEN cfgMax ELSE GoInt(0, DefaultPageSize)
      ELSE IF IsPositive(cfgMax)
             THEN IF cfgMax.q = 0 /\ pageSize > cfgMax.r THEN cfgMax ELSE GoInt(0, pageSize)
             ELSE GoInt(0, Min(pageSize, HardPageCap))

\* C7: the row limit of a successful ListRows is the configured maximum (or
\* 50) for a page size <= 0, else the page size clamped to the configured
\* maximum (or to 100), and no more rows than that are returned.
C7_PageLimit ==
    (last.op = "ListRows" /\ last.ok) =>
        /\ GoInt(0, last.limit) = ConfiguredLimit(cfgMaxRow, last.page_size)
        /\ Len(last.rows) <= last.limit

\* The relationship columns of the listed table that were asked to expand.
Requested == {c \in ColumnsOf(last.table_id) :
                c.id \in last.expand /\ KindOf(c.type_id) = "relationship"}

\* The rows of table tid whose value in the physical column of column
\* linkId is the row id parentId, ordered by id.
ChildrenOf(tid, linkId, parentId) ==
    LET pg == (CHOOSE c \in columns : c.id = linkId).pg_column
    IN SortById({r \in RowsOf(tid) : r.vals[pg] = [t |-> "text", v |-> parentId]})

\* C8: a ListRows that expands a relationship column configured with a link
\* column succeeds and attaches to every returned row the target table's
\* rows whose link value is that row's id, ordered by id, as {id, cells}.
C8_OneToManyExpansion ==
    last.op = "ListRows" =>
        \A c \in Requested :
            (c.config.target_table_id # "" /\ c.config.link_column_id # "") =>
                /\ last.ok
                /\ \A i \in 1..Len(last.rows) :
                       LET kids == ChildrenOf(c.config.target_table_id,
                                              c.config.link_column_id, last.rows[i].id)
                           got == last.rows[i].related[c.id]
                       IN /\ Len(got) = Len(kids)
                          /\ \A j \in 1..Len(kids) :
                                 /\ got[j].id = kids[j].id
                                 /\ DOMAIN got[j].cells =
                                      {k.id : k \in {k \in ColumnsOf(c.config.target_table_id) :
                                                       /\ ~IsVirtual(k.type_id)
                                                       /\ kids[j].vals[k.pg_column] # NullStored}}

\* C9: a ListRows that expands relationship columns of the table succeeds
\* when no link is configured or the target-id cell holds no non-empty
\* string, and every returned row then carries, under each such column id, a
\* structured value wrapping a list, the list being empty.
C9_ExpansionIsNeverNull ==
    last.op = "ListRows" =>
        \A c \in Requested :
            /\ (c.config.link_column_id = "" /\ c.config.target_column_id = "") => last.ok
            /\ \A i \in 1..Len(last.rows) :
                   LET cells == last.rows[i].cells
                       tc == c.config.target_column_id
                   IN /\ c.id \in DOMAIN cells
                      /\ cells[c.id].kind = "json"
                      /\ (\/ (c.config.link_column_id = "" /\ tc = "")
                          \/ (/\ c.config.link_column_id = ""
                              /\ (\/ tc \notin DOMAIN cells
                                  \/ cells[tc].kind # "string"
                                  \/ cells[tc].v = ""))) =>
                             last.rows[i].related[c.id] = <<>>

\* C10: a BulkUpsertRows in which a statement failed returns an error and no
\* rows, and leaves every physical table as it was before the call.
C10_BulkUpsertAllOrNothing ==
    (last.op = "BulkUpsertRows" /\ last.failed) =>
        /\ ~last.ok
        /\ last.returned = 0
        /\ ~last.changed

\* A statement failed after an earlier item of the batch had been applied.
C10_Witness ==
    /\ last.op = "BulkUpsertRows" /\ last.failed
    /\ last.applied >= 1

\* C28: an UpdateRow changes no catalog row; one none of whose cells is keyed
\* by a known non-virtual column of the table fails, and a failed one changes
\* no physical table; a successful one leaves every other table, the table's
\* columns, every other row and, in the row with the given id, every column
\* not supplied as they were; and after a successful one, a ListRows (the
\* table's rows within the page limit) shows the row with the given id with
\* the supplied cells of the known non-virtual columns, a cell holding no
\* value shown as absent.
C28_UpdateRow ==
    /\ [](LET tid == last.table_id
              rid == last.row_id
              cells == last.cells
              known == {c \in ColumnsOf(tid) : ~IsVirtual(c.type_id) /\ c.id \in DOMAIN cells}
              lr == ListRows(tid, 0, "", {})
          IN (/\ last.op = "UpdateRow" /\ last.ok
              /\ \E r \in RowsOf(tid) : r.id = rid
              /\ Cardinality(RowsOf(tid)) <= PageLimit(0, maxRow)) =>
                 /\ lr.ok
                 /\ \E i \in 1..Len(lr.rows) :
                        /\ lr.rows[i].id = rid
                        /\ \A c \in known :
                               IF cells[c.id].kind = "null"
                                 THEN c.id \notin DOMAIN lr.rows[i].cells
                                 ELSE /\ c.id \in DOMAIN lr.rows[i].cells
                                      /\ lr.rows[i].cells[c.id] = cells[c.id])
    /\ [][last'.op = "UpdateRow" =>
            LET tid == last'.table_id
                rid == last'.row_id
                cells == last'.cells
                known == {c \in ColumnsOf(tid) : ~IsVirtual(c.type_id) /\ c.id \in DOMAIN cells}
                t == CHOOSE t \in tables : t.id = tid
                before == PhysTable(phys, t.schema_name, t.table_name)
                after == PhysTable(phys', t.schema_name, t.table_name)
            IN /\ tables' = tables /\ columns' = columns
               /\ known = {} => ~last'.ok
               /\ ~last'.ok => phys' = phys
               /\ last'.ok =>
                     /\ phys' \ {after} = phys \ {before}
                     /\ after.cols = before.cols
                     /\ {r.id : r \in after.rows} = {r.id : r \in before.rows}
                     /\ \A r \in before.rows : r.id # rid => r \in after.rows
                     /\ \A r \in before.rows, q \in after.rows :
                            (r.id = rid /\ q.id = rid) =>
                                \A c \in ColumnsOf(tid) \ known :
                                    ~IsVirtual(c.type_id) =>
                                        q.vals[c.pg_column] = r.vals[c.pg_column]]_vars

\* C29: a CreateRow whose cell map is empty, or has no key that is the id of
\* a non-virtual column of the table, returns an error and leaves every
\* physical table, so every row, as it was.
C29_CreateRowWithoutKnownCell ==
    [][(/\ last'.op = "CreateRow"
        /\ ~\E c \in ColumnsOf(last'.table_id) :
               ~IsVirtual(c.type_id) /\ c.id \in DOMAIN last'.cells) =>
          /\ ~last'.ok
          /\ last'.id = ""
          /\ phys' = phys]_vars

\* A CreateRow whose only cells are keyed by a virtual column of the table
\* and by an id no column has was refused, on a table that holds a row.
C29_Witness ==
    /\ last.op = "CreateRow" /\ ~last.ok
    /\ UnknownColumn \in DOMAIN last.cells
    /\ \E c \in ColumnsOf(last.table_id) : IsVirtual(c.type_id) /\ c.id \in DOMAIN last.cells
    /\ RowsOf(last.table_id) # {}

\* C30: the rows a successful ListRows returns are in ascending order of id
\* and are the rows of the table with the smallest ids, the first of them
\* included whenever the table holds a row and has a non-virtual column (with
\* none, the response is empty); and with the state as the call
\* left it, a ListRows on the same table with the same page size and columns
\* to expand gives the same response for every page token.
C30_ListRowsOrderAndToken ==
    last.op = "ListRows" =>
        /\ \A tk \in PageTokens :
               ListRows(last.table_id, last.page_size, tk, last.expand)
                   = [ok |-> last.ok, rows |-> last.rows, limit |-> last.limit]
        /\ last.ok =>
               /\ \A i \in 1..Len(last.rows), j \in 1..Len(last.rows) :
                      i < j => RowNo(last.rows[i].id) < RowNo(last.rows[j].id)
               /\ \A r \in RowsOf(last.table_id) :
                      \/ \E i \in 1..Len(last.rows) : last.rows[i].id = r.id
                      \/ \A i \in 1..Len(last.rows) : RowNo(last.rows[i].id) < RowNo(r.id)
               /\ (/\ RowsOf(last.table_id) # {}
                   /\ \E c \in ColumnsOf(last.table_id) : ~IsVirtual(c.type_id)) =>
                      Len(last.rows) >= 1

\* A ListRows that carried a page token returned both rows of the table.
C30_Witness ==
    /\ last.op = "ListRows" /\ last.ok
    /\ last.page_token # ""
    /\ Len(last.rows) = 2
    /\ Cardinality(RowsOf(last.table_id)) = 2

\* The tables of the catalog that have no non-virtual column.
NoDataColumns == {t \in tables : \A c \in ColumnsOf(t.id) : IsVirtual(c.type_id)}

\* C31: for a table of the catalog that has no non-virtual column, whatever
\* rows its physical table holds, every ListRows returns no row and no error,
\* and every CreateRow, UpdateRow and BulkUpsertRows returns an error and
\* leaves the physical tables as they were.
C31_NoDataColumns ==
    \A t \in NoDataColumns :
        /\ \A ps \in PageSizes, tk \in PageTokens, ex \in ExpandInputs :
               LET r == ListRows(t.id, ps, tk, ex) IN r.ok /\ r.rows = <<>>
        /\ \A cells \in CellInputs(t.id) :
               LET r == CreateRow(t.id, cells) IN ~r.ok /\ r.phys = phys
        /\ \A cells \in CellInputs(t.id), rid \in DeleteRowIds :
               LET r == UpdateRow(t.id, rid, cells) IN ~r.ok /\ r.phys = phys
        /\ \A items \in BulkInputs :
               LET r == BulkUpsertRows(t.id, items) IN ~r.ok /\ r.phys = phys

\* A CreateRow was refused on a table that holds a row and has lost its last
\* non-virtual column.
C31_Witness ==
    /\ last.op = "CreateRow" /\ ~last.ok
    /\ DOMAIN last.cells # {}
    /\ \E t \in NoDataColumns : t.id = last.table_id /\ RowsOf(t.id) # {}

\* C32: a BulkUpsertRows whose items all lack a cell keyed by a non-virtual
\* column of the table succeeds and changes nothing; a successful one returns
\* one row per item that has such a cell, in item order, with the item's
\* cells and the item's row id or, for an item without one, the id of a row
\* that is new; the table's rows afterwards are the rows before and one new
\* row per such item without a row id; other tables are untouched; and each
\* non-virtual column of each row holds the value of the last item that
\* addressed the row, once it was there, with a cell for the column, else
\* what it held before (nothing, in a new row).
C32_BulkUpsert ==
    [][last'.op = "BulkUpsertRows" =>
          LET items == last'.items
              tid == last'.table_id
              rows == last'.rows
              known == {c \in ColumnsOf(tid) : ~IsVirtual(c.type_id)}
              kept == {i \in 1..Len(items) : \E c \in known : c.id \in DOMAIN items[i].cells}
              pos(i) == Cardinality({j \in kept : j <= i})
              target(i) == rows[pos(i)].id
              inserted == {i \in kept : items[i].row_id = ""}
              t == CHOOSE t \in tables : t.id = tid
              before == PhysTable(phys, t.schema_name, t.table_name)
              after == PhysTable(phys', t.schema_name, t.table_name)
              touching(id, c) == {i \in kept : /\ target(i) = id
                                                /\ c.id \in DOMAIN items[i].cells
                                                /\ \A j \in inserted : target(j) = id => j <= i}
              latest(S) == CHOOSE i \in S : \A j \in S : j <= i
              stored(i, c) == PgEncode(valueToAny(items[i].cells[c.id]), PgTypeOf(c.type_id)).s
          IN /\ kept = {} => (last'.ok /\ phys' = phys)
             /\ last'.ok =>
                   /\ Len(rows) = Cardinality(kept)
                   /\ \A i \in kept :
                          /\ rows[pos(i)].cells = items[i].cells
                          /\ items[i].row_id # "" => target(i) = items[i].row_id
                   /\ \A i \in inserted :
                          /\ target(i) \notin UsedRowIds(phys)
                          /\ \A j \in inserted : j # i => target(j) # target(i)
                   /\ phys' \ {after} = phys \ {before}
                   /\ {r.id : r \in after.rows}
                        = {r.id : r \in before.rows} \cup {target(i) : i \in inserted}
                   /\ \A q \in after.rows : \A c \in known :
                          q.vals[c.pg_column] =
                              IF touching(q.id, c) # {}
                                THEN stored(latest(touching(q.id, c)), c)
                                ELSE IF \E r \in before.rows : r.id = q.id
                                       THEN (CHOOSE r \in before.rows : r.id = q.id).vals[c.pg_column]
                                       ELSE NullStored]_vars

\* A batch of an item that matches no column and an item that changed a row
\* that was there succeeded and returned one row.
C32_Witness ==
    /\ last.op = "BulkUpsertRows" /\ last.ok
    /\ Len(last.items) = 2
    /\ DOMAIN last.items[1].cells = {UnknownColumn}
    /\ last.items[2].row_id # ""
    /\ Len(last.rows) = 1
    /\ last.changed

\* C33: a BulkDeleteRows on a table of the catalog with an empty id list
\* succeeds and changes nothing; with ids, it succeeds when the table has a
\* non-virtual column and every id is well formed; when it succeeds the
\* table loses exactly its rows whose ids are listed and nothing else
\* changes, and when it fails nothing changes.
C33_BulkDeleteRows ==
    [][last'.op = "BulkDeleteRows" =>
          LET tid == last'.table_id
              ids == last'.row_ids
              t == CHOOSE t \in tables : t.id = tid
              before == RowsOf(tid)
              after == PhysTable(phys', t.schema_name, t.table_name).rows
          IN /\ tables' = tables /\ columns' = columns
             /\ ids = {} => (last'.ok /\ phys' = phys)
             /\ (/\ \E c \in ColumnsOf(tid) : ~IsVirtual(c.type_id)
                 /\ \A id \in ids : IsUUID(id)) => last'.ok
             /\ ~last'.ok => phys' = phys
             /\ (last'.ok /\ ids # {}) =>
                   /\ after = {r \in before : r.id \notin ids}
                   /\ \A pt \in phys :
                          ~(pt.schema = t.schema_name /\ pt.name = t.table_name) => pt \in phys'
                   /\ Cardinality(phys') = Cardinality(phys)
                   /\ \A pt \in phys' : \E qt \in phys :
                          /\ qt.schema = pt.schema /\ qt.name = pt.name
                          /\ qt.cols = pt.cols]_vars

\* A BulkDeleteRows that named a row of the table and an id no row has
\* removed the one row and left another row of the table.
C33_Witness ==
    /\ last.op = "BulkDeleteRows" /\ last.ok
    /\ Cardinality(last.row_ids) = 2
    /\ RowId(MaxRows + 1) \in last.row_ids
    /\ Cardinality(RowsOf(last.table_id)) = 1
    /\ \E id \in last.row_ids : id \notin UsedRowIds(phys) /\ id # RowId(MaxRows + 1)

\* The handlers that begin a transaction.
TxOps == {"CreateTable", "DeleteTable", "AddColumn", "DeleteColumn",
          "CreateIndex", "DeleteIndex", "BulkUpsertRows", "BulkDeleteRows"}

C35_DeleteTableCascades ==
    /\ [](/\ \A c \in columns : \E t \in tables : t.id = c.table_id
          /\ \A i \in indexes : \E t \in tables : t.id = i.table_id)
    /\ [][(last'.op = "DeleteTable" /\ last'.ok) =>
            /\ last'.id \notin ListTables'
            /\ \A t \in tables :
                   t.name = last'.id =>
                       /\ t \notin tables'
                       /\ \A c \in columns' : c.table_id # t.id
                       /\ \A i \in indexes' : i.table_id # t.id]_vars

\* A DeleteTable removed a table together with a column row and an index
\* row of it.
C35_Witness ==
    /\ last.op = "DeleteTable" /\ last.ok /\ last.found
    /\ last.cascaded[1] >= 1
    /\ last.cascaded[2] >= 1

\* C36: a pool that PoolFor handed to a request is not closed while the
\* request is still working with it.
C36_PoolInUseStaysOpen ==
    \A p \in Procs :
        (pc[p] = "using" /\ ret[p].pool # NoPool) => ~opened[ret[p].pool].closed


\* The data pools that PoolFor and CreateTenant opened and that are not closed.
OpenDataPools ==
    {i \in 1..Len(opened) : opened[i].by \in {"PoolFor", "CreateTenant"} /\ ~opened[i].closed}

\* The calls that have opened pool i and have neither stored it nor returned.
HoldersOf(i) ==
    {p \in Procs : pool[p] = i /\ pc[p] \notin {"idle", "using", "returned"}}

C38_UpdateColumnKeepsUnsupplied ==
    [][(last'.op = "UpdateColumn" /\ last'.ok /\ last'.name # "") =>
          \A c \in columns : c.id = last'.id =>
              \E d \in columns' :
                  /\ d.id = c.id
                  /\ d.is_nullable = c.is_nullable
                  /\ d.position = c.position
                  /\ d.config = c.config]_vars



\* C39: every column id stored in a catalog index row is the id of a
\* non-virtual catalog column of the index's table.
C39_IndexColumnsExist ==
    \A i \in indexes : \A id \in i.column_ids :
        \E c \in columns : c.id = id /\ c.table_id = i.table_id /\ ~IsVirtual(c.type_id)



\* The positions of a process outside poolForTenant and CreateTenant.
OutsideCall == {"idle", "using", "returned"}

\* C40: the pool-map lock is always released: a process that is not inside a
\* PoolFor or CreateTenant call holds neither the read nor the write lock,
\* whichever path the call returned on, and under fair scheduling every call
\* that has started eventually returns.
C40_LockReleasedAndCallsReturn ==
    /\ [](\A p \in Procs : pc[p] \in OutsideCall => (mu.writer # p /\ p \notin mu.readers))
    /\ \A p \in Procs : (pc[p] \notin OutsideCall) ~> (pc[p] \in {"using", "returned"})

\* A PoolFor returned an error after it had taken the write lock (its pool
\* could not be opened); the lock is free and another call is waiting for it.
C40_Witness ==
    \E p \in Procs, q \in Procs :
        /\ op[p] = "PoolFor" /\ pc[p] = "returned" /\ ret[p].err
        /\ tenantID[p] # NoTenant /\ mode = TenantModeMulti
        /\ mu.writer = NoProc
        /\ pc[q] \in {"pf_rlock", "pf_wlock", "ct_lock"}


====
